---------------------------- MODULE Spec2Model ----------------------------
(***************************************************************************)
(* Model of the private/public key deserializer of tls/pkparse.c           *)
(* (Tempesta TLS): ttls_pk_parse_key and ttls_pk_parse_subpubkey with the  *)
(* decoders they drive (PKCS#1, SEC1, PKCS#8, AlgorithmIdentifier, EC      *)
(* parameters, EC public point).                                           *)
(*                                                                         *)
(* Buffers are sequences of byte values; a cursor is a 0-based offset into *)
(* the buffer, so the byte under cursor p is buf[p + 1].  The build that   *)
(* is modelled has TTLS_PK_PARSE_EC_EXTENDED undefined (named curves only).*)
(* The collaborators whose code is outside tls/pkparse.c (ASN.1 tokenizer, *)
(* PEM framer, OID table, RSA and ECP primitives, PK setup/free) are       *)
(* modelled from their contracts over toy-sized numbers: one-byte OIDs,    *)
(* one-byte big integers, cyclic groups of small prime order.              *)
(***************************************************************************)
EXTENDS Integers, Sequences, FiniteSets, TLC

(***************************************************************************)
(* Status codes (pk.h, asn1.h, ecp.h, rsa.h, pem.h).                       *)
(***************************************************************************)
TTLS_ERR_PK_KEY_INVALID_FORMAT == -15616
TTLS_ERR_PK_KEY_INVALID_VERSION == -15744
TTLS_ERR_PK_UNKNOWN_PK_ALG == -15488
TTLS_ERR_PK_INVALID_PUBKEY == -15104
TTLS_ERR_PK_INVALID_ALG == -14976
TTLS_ERR_PK_UNKNOWN_NAMED_CURVE == -14848
TTLS_ERR_PK_BAD_INPUT_DATA == -16000
TTLS_ERR_ASN1_OUT_OF_DATA == -96
TTLS_ERR_ASN1_UNEXPECTED_TAG == -98
TTLS_ERR_ASN1_INVALID_LENGTH == -100
TTLS_ERR_ASN1_LENGTH_MISMATCH == -102
TTLS_ERR_ASN1_INVALID_DATA == -104
TTLS_ERR_ECP_BAD_INPUT_DATA == -20352
TTLS_ERR_ECP_FEATURE_UNAVAILABLE == -20096
TTLS_ERR_ECP_INVALID_KEY == -19584
TTLS_ERR_RSA_BAD_INPUT_DATA == -16512
TTLS_ERR_RSA_KEY_CHECK_FAILED == -16896
TTLS_ERR_PEM_NO_HEADER_FOOTER_PRESENT == -4224
TTLS_ERR_PEM_INVALID_DATA == -4352
TTLS_ERR_PEM_PASSWORD_REQUIRED == -4864
TTLS_ERR_PEM_PASSWORD_MISMATCH == -4992

(***************************************************************************)
(* ASN.1 tags (asn1.h).                                                    *)
(***************************************************************************)
TTLS_ASN1_INTEGER == 2
TTLS_ASN1_BIT_STRING == 3
TTLS_ASN1_OCTET_STRING == 4
TTLS_ASN1_NULL == 5
TTLS_ASN1_OID == 6
TTLS_ASN1_SEQUENCE == 16
TTLS_ASN1_CONSTRUCTED == 32
TTLS_ASN1_CONTEXT_SPECIFIC == 128

SEQ_TAG == TTLS_ASN1_CONSTRUCTED + TTLS_ASN1_SEQUENCE
CTX0_TAG == TTLS_ASN1_CONTEXT_SPECIFIC + TTLS_ASN1_CONSTRUCTED + 0
CTX1_TAG == TTLS_ASN1_CONTEXT_SPECIFIC + TTLS_ASN1_CONSTRUCTED + 1

(***************************************************************************)
(* Byte helpers.                                                           *)
(***************************************************************************)
At(buf, p) == buf[p + 1]

Slice(buf, p, len) == SubSeq(buf, p + 1, p + len)

RECURSIVE BigEndian(_)
BigEndian(bytes) ==
    IF bytes = << >> THEN 0
    ELSE 256 * BigEndian(SubSeq(bytes, 1, Len(bytes) - 1)) + bytes[Len(bytes)]

(***************************************************************************)
(* ASN.1 tokenizer.  Every reader returns [ret, p, ...]; p is the cursor   *)
(* after the call.  Lengths: short form and the one-byte long form 0x81.   *)
(***************************************************************************)
asn1_get_len(buf, p, end) ==
    IF end - p < 1
    THEN [ret |-> TTLS_ERR_ASN1_OUT_OF_DATA, p |-> p, len |-> 0]
    ELSE IF At(buf, p) < 128
    THEN IF At(buf, p) > end - (p + 1)
         THEN [ret |-> TTLS_ERR_ASN1_OUT_OF_DATA, p |-> p + 1, len |-> At(buf, p)]
         ELSE [ret |-> 0, p |-> p + 1, len |-> At(buf, p)]
    ELSE IF At(buf, p) = 129
    THEN IF end - p < 2
         THEN [ret |-> TTLS_ERR_ASN1_OUT_OF_DATA, p |-> p, len |-> 0]
         ELSE IF At(buf, p + 1) > end - (p + 2)
         THEN [ret |-> TTLS_ERR_ASN1_OUT_OF_DATA, p |-> p + 2, len |-> At(buf, p + 1)]
         ELSE [ret |-> 0, p |-> p + 2, len |-> At(buf, p + 1)]
    ELSE [ret |-> TTLS_ERR_ASN1_INVALID_LENGTH, p |-> p, len |-> 0]

asn1_get_tag(buf, p, end, tag) ==
    IF end - p < 1
    THEN [ret |-> TTLS_ERR_ASN1_OUT_OF_DATA, p |-> p, len |-> 0]
    ELSE IF At(buf, p) # tag
    THEN [ret |-> TTLS_ERR_ASN1_UNEXPECTED_TAG, p |-> p, len |-> 0]
    ELSE asn1_get_len(buf, p + 1, end)

\* The value part of the readers below: t is the result of asn1_get_tag.
asn1_int_value(buf, t) ==
    IF t.ret # 0 THEN [ret |-> t.ret, p |-> t.p, val |-> 0]
    ELSE IF t.len = 0 \/ t.len > 4 \/ At(buf, t.p) >= 128
    THEN [ret |-> TTLS_ERR_ASN1_INVALID_LENGTH, p |-> t.p, val |-> 0]
    ELSE [ret |-> 0, p |-> t.p + t.len, val |-> BigEndian(Slice(buf, t.p, t.len))]

asn1_get_int(buf, p, end) ==
    asn1_int_value(buf, asn1_get_tag(buf, p, end, TTLS_ASN1_INTEGER))

asn1_mpi_value(buf, t) ==
    IF t.ret # 0 THEN [ret |-> t.ret, p |-> t.p, val |-> 0]
    ELSE [ret |-> 0, p |-> t.p + t.len, val |-> BigEndian(Slice(buf, t.p, t.len))]

asn1_get_mpi(buf, p, end) ==
    asn1_mpi_value(buf, asn1_get_tag(buf, p, end, TTLS_ASN1_INTEGER))

asn1_unused_bits(buf, t) ==
    IF t.ret # 0 THEN [ret |-> t.ret, p |-> t.p, len |-> 0]
    ELSE IF t.len < 2 \/ At(buf, t.p) # 0
    THEN [ret |-> TTLS_ERR_ASN1_INVALID_DATA, p |-> t.p, len |-> t.len]
    ELSE [ret |-> 0, p |-> t.p + 1, len |-> t.len - 1]

asn1_get_bitstring_null(buf, p, end) ==
    asn1_unused_bits(buf, asn1_get_tag(buf, p, end, TTLS_ASN1_BIT_STRING))

NoBuf == [tag |-> 0, len |-> 0, p |-> 0]

\* asn1_get_alg after the OID: the parameters, l the result of asn1_get_len
\* behind their tag byte at q.
asn1_alg_params(buf, end2, alg, q, l) ==
    IF l.ret # 0
    THEN [ret |-> l.ret, p |-> l.p, alg |-> alg,
          params |-> [tag |-> At(buf, q), len |-> l.len, p |-> l.p]]
    ELSE IF l.p + l.len # end2
    THEN [ret |-> TTLS_ERR_ASN1_LENGTH_MISMATCH, p |-> l.p + l.len, alg |-> alg,
          params |-> [tag |-> At(buf, q), len |-> l.len, p |-> l.p]]
    ELSE [ret |-> 0, p |-> end2, alg |-> alg,
          params |-> [tag |-> At(buf, q), len |-> l.len, p |-> l.p]]

\* asn1_get_alg inside the SEQUENCE: o is the result of asn1_get_tag(OID).
asn1_alg_oid(buf, end2, o) ==
    IF o.ret # 0 THEN [ret |-> o.ret, p |-> o.p, alg |-> NoBuf, params |-> NoBuf]
    ELSE IF o.p + o.len = end2
    THEN [ret |-> 0, p |-> end2,
          alg |-> [tag |-> TTLS_ASN1_OID, len |-> o.len, p |-> o.p],
          params |-> NoBuf]
    ELSE asn1_alg_params(buf, end2,
                         [tag |-> TTLS_ASN1_OID, len |-> o.len, p |-> o.p],
                         o.p + o.len,
                         asn1_get_len(buf, o.p + o.len + 1, end2))

\* asn1_get_alg behind the header s of the SEQUENCE.
asn1_alg_seq(buf, end, s) ==
    IF s.ret # 0 THEN [ret |-> s.ret, p |-> s.p, alg |-> NoBuf, params |-> NoBuf]
    ELSE IF end - s.p < 1
    THEN [ret |-> TTLS_ERR_ASN1_OUT_OF_DATA, p |-> s.p, alg |-> NoBuf, params |-> NoBuf]
    ELSE asn1_alg_oid(buf, s.p + s.len,
                      asn1_get_tag(buf, s.p, s.p + s.len, TTLS_ASN1_OID))

asn1_get_alg(buf, p, end) ==
    asn1_alg_seq(buf, end, asn1_get_tag(buf, p, end, SEQ_TAG))

(***************************************************************************)
(* OID table (oid.h): one-byte payloads stand for the registered OIDs.     *)
(***************************************************************************)
OID_RSA == <<1>>
OID_EC_ALG_UNRESTRICTED == <<2>>
OID_EC_ALG_ECDH == <<3>>
OID_CURVE_A == <<16>>
OID_CURVE_B == <<17>>

ttls_oid_get_pk_alg(oid) ==
    IF oid = OID_RSA THEN [ret |-> 0, alg |-> "RSA"]
    ELSE IF oid = OID_EC_ALG_UNRESTRICTED THEN [ret |-> 0, alg |-> "ECKEY"]
    ELSE IF oid = OID_EC_ALG_ECDH THEN [ret |-> 0, alg |-> "ECKEY_DH"]
    ELSE [ret |-> -1, alg |-> "NONE"]

ttls_oid_get_ec_grp(oid) ==
    IF oid = OID_CURVE_A THEN [ret |-> 0, id |-> 1]
    ELSE IF oid = OID_CURVE_B THEN [ret |-> 0, id |-> 2]
    ELSE [ret |-> -1, id |-> 0]

(***************************************************************************)
(* ECP (ecp.h).  A group is known by its id (TTLS_ECP_DP_NONE is 0); the   *)
(* registry holds two groups of prime order GrpN(id) with base point G of  *)
(* coordinates (1, N - 1); the point k*G has coordinates (k, N - k), and   *)
(* these are exactly the points on the curve.  A point with Z = 0 is the   *)
(* point at infinity.                                                      *)
(***************************************************************************)
TTLS_ECP_DP_NONE == 0

GrpN(id) == IF id = 1 THEN 5 ELSE IF id = 2 THEN 7 ELSE 0

GrpPlen(id) == IF id = TTLS_ECP_DP_NONE THEN 0 ELSE 1

ZeroPt == [X |-> 0, Y |-> 0, Z |-> 0]

EmptyEc == [grp |-> TTLS_ECP_DP_NONE, d |-> 0, Q |-> ZeroPt]

OnCurve(id, pt) ==
    /\ id # TTLS_ECP_DP_NONE
    /\ pt.Z = 1
    /\ pt.X >= 1 /\ pt.X < GrpN(id)
    /\ pt.Y = GrpN(id) - pt.X

ttls_ecp_group_load(id) ==
    IF id \in {1, 2} THEN [ret |-> 0, grp |-> id]
    ELSE [ret |-> TTLS_ERR_ECP_FEATURE_UNAVAILABLE, grp |-> TTLS_ECP_DP_NONE]

ttls_ecp_point_read_binary(grp, Q, bytes) ==
    IF Len(bytes) < 1 THEN [ret |-> TTLS_ERR_ECP_BAD_INPUT_DATA, Q |-> Q]
    ELSE IF bytes[1] = 0
    THEN IF Len(bytes) = 1 THEN [ret |-> 0, Q |-> [X |-> 1, Y |-> 1, Z |-> 0]]
         ELSE [ret |-> TTLS_ERR_ECP_BAD_INPUT_DATA, Q |-> Q]
    ELSE IF bytes[1] # 4 THEN [ret |-> TTLS_ERR_ECP_FEATURE_UNAVAILABLE, Q |-> Q]
    ELSE IF Len(bytes) # 2 * GrpPlen(grp) + 1
    THEN [ret |-> TTLS_ERR_ECP_BAD_INPUT_DATA, Q |-> Q]
    ELSE [ret |-> 0,
          Q |-> [X |-> BigEndian(SubSeq(bytes, 2, 1 + GrpPlen(grp))),
                 Y |-> BigEndian(SubSeq(bytes, 2 + GrpPlen(grp), Len(bytes))),
                 Z |-> 1]]

ttls_ecp_check_pubkey(grp, pt) ==
    IF grp = TTLS_ECP_DP_NONE THEN TTLS_ERR_ECP_BAD_INPUT_DATA
    ELSE IF OnCurve(grp, pt) THEN 0
    ELSE TTLS_ERR_ECP_INVALID_KEY

ttls_ecp_check_privkey(grp, d) ==
    IF grp = TTLS_ECP_DP_NONE THEN TTLS_ERR_ECP_BAD_INPUT_DATA
    ELSE IF d < 1 \/ d >= GrpN(grp) THEN TTLS_ERR_ECP_INVALID_KEY
    ELSE 0

\* R = d * G for the base point G of grp.
ttls_ecp_mul(grp, Q, d) ==
    IF ttls_ecp_check_privkey(grp, d) # 0
    THEN [ret |-> ttls_ecp_check_privkey(grp, d), Q |-> Q]
    ELSE [ret |-> 0, Q |-> [X |-> d, Y |-> GrpN(grp) - d, Z |-> 1]]

(***************************************************************************)
(* RSA (rsa.h).  A field equal to 0 has not been imported.                 *)
(***************************************************************************)
EmptyRsa == [N |-> 0, E |-> 0, D |-> 0, P |-> 0, Q |-> 0,
             DP |-> 0, DQ |-> 0, QP |-> 0]

RECURSIVE Gcd(_, _)
Gcd(a, b) == IF b = 0 THEN a ELSE Gcd(b, a % b)

Lcm(a, b) == (a * b) \div Gcd(a, b)

\* ttls_rsa_import_raw with one non-NULL argument.
ttls_rsa_import_raw(rsa, field, bytes) ==
    [rsa EXCEPT ![field] = BigEndian(bytes)]

\* Derives what is missing and validates the result: N = P*Q with P, Q
\* coprime, 1 < E < N, D*E = 1 (mod lcm(P-1, Q-1)).
ttls_rsa_complete(rsa) ==
    IF rsa.D = 0 /\ rsa.P = 0 /\ rsa.Q = 0
    THEN IF rsa.N > 0 /\ rsa.E > 0 THEN [ret |-> 0, rsa |-> rsa]
         ELSE [ret |-> TTLS_ERR_RSA_BAD_INPUT_DATA, rsa |-> rsa]
    ELSE IF rsa.P = 0 \/ rsa.Q = 0 \/ rsa.E = 0
    THEN [ret |-> TTLS_ERR_RSA_BAD_INPUT_DATA, rsa |-> rsa]
    ELSE
    LET n == IF rsa.N = 0 THEN rsa.P * rsa.Q ELSE rsa.N
        lambda == IF rsa.P > 1 /\ rsa.Q > 1 THEN Lcm(rsa.P - 1, rsa.Q - 1) ELSE 0
        ds == IF lambda = 0 THEN {}
              ELSE {x \in 1..lambda : (x * rsa.E) % lambda = 1 % lambda}
        d == IF rsa.D # 0 THEN rsa.D
             ELSE IF ds = {} THEN 0
             ELSE CHOOSE x \in ds : \A y \in ds : x <= y
    IN
    IF \/ lambda = 0
       \/ n # rsa.P * rsa.Q
       \/ Gcd(rsa.P, rsa.Q) # 1
       \/ rsa.E <= 1 \/ rsa.E >= n
       \/ d = 0
       \/ (d * rsa.E) % lambda # 1 % lambda
    THEN [ret |-> TTLS_ERR_RSA_KEY_CHECK_FAILED, rsa |-> rsa]
    ELSE [ret |-> 0,
          rsa |-> [rsa EXCEPT !.N = n, !.D = d,
                              !.DP = d % (rsa.P - 1),
                              !.DQ = d % (rsa.Q - 1),
                              !.QP = CHOOSE x \in 1..(rsa.P - 1) :
                                         (x * rsa.Q) % rsa.P = 1]]

ttls_rsa_check_pubkey(rsa) ==
    IF rsa.N < 3 \/ rsa.N % 2 = 0 \/ rsa.E < 2 \/ rsa.E >= rsa.N
    THEN TTLS_ERR_RSA_KEY_CHECK_FAILED
    ELSE 0

(***************************************************************************)
(* PK context (pk.h): the algorithm tag bound by ttls_pk_setup and the     *)
(* RSA or EC sub-object it owns.                                           *)
(***************************************************************************)
PkEmpty == [tag |-> "NONE", rsa |-> EmptyRsa, ec |-> EmptyEc]

ttls_pk_info_from_type(alg) ==
    IF alg \in {"RSA", "ECKEY", "ECKEY_DH"} THEN alg ELSE "NONE"

ttls_pk_setup(pk, info) ==
    IF info = "NONE" \/ pk.tag # "NONE"
    THEN [ret |-> TTLS_ERR_PK_BAD_INPUT_DATA, pk |-> pk]
    ELSE [ret |-> 0, pk |-> [tag |-> info, rsa |-> EmptyRsa, ec |-> EmptyEc]]

ttls_pk_free(pk) == PkEmpty

(***************************************************************************)
(* tls/pkparse.c                                                           *)
(***************************************************************************)
KEY_FMT == TTLS_ERR_PK_KEY_INVALID_FORMAT

\* ret & 0xff80 on a two's complement int: bits 7..15 of its low 16 bits.
AndFF80(ret) == ((ret % 65536) \div 128) * 128

pk_get_ecparams(buf, p, end) ==
    IF end - p < 1
    THEN [ret |-> KEY_FMT + TTLS_ERR_ASN1_OUT_OF_DATA, p |-> p, params |-> NoBuf]
    ELSE IF At(buf, p) # TTLS_ASN1_OID
    THEN [ret |-> KEY_FMT + TTLS_ERR_ASN1_UNEXPECTED_TAG, p |-> p,
          params |-> [NoBuf EXCEPT !.tag = At(buf, p)]]
    ELSE
    LET t == asn1_get_tag(buf, p, end, At(buf, p))
        params == [tag |-> At(buf, p), len |-> t.len, p |-> t.p] IN
    IF t.ret # 0 THEN [ret |-> KEY_FMT + t.ret, p |-> t.p, params |-> params]
    ELSE IF t.p + t.len # end
    THEN [ret |-> KEY_FMT + TTLS_ERR_ASN1_LENGTH_MISMATCH, p |-> t.p + t.len,
          params |-> params]
    ELSE [ret |-> 0, p |-> t.p + t.len, params |-> params]

\* Mutant of pk_use_ecparams: the comparison with an already initialised
\* group is missing.
pk_use_ecparams_no_id_check(buf, params, grp) ==
    IF params.tag # TTLS_ASN1_OID THEN [ret |-> KEY_FMT, grp |-> grp]
    ELSE
    LET g == ttls_oid_get_ec_grp(Slice(buf, params.p, params.len)) IN
    IF g.ret # 0 THEN [ret |-> TTLS_ERR_PK_UNKNOWN_NAMED_CURVE, grp |-> grp]
    ELSE ttls_ecp_group_load(g.id)

pk_use_ecparams(buf, params, grp) ==
    IF params.tag # TTLS_ASN1_OID THEN [ret |-> KEY_FMT, grp |-> grp]
    ELSE
    LET g == ttls_oid_get_ec_grp(Slice(buf, params.p, params.len)) IN
    IF g.ret # 0 THEN [ret |-> TTLS_ERR_PK_UNKNOWN_NAMED_CURVE, grp |-> grp]
    ELSE IF grp # TTLS_ECP_DP_NONE /\ grp # g.id THEN [ret |-> KEY_FMT, grp |-> grp]
    ELSE ttls_ecp_group_load(g.id)

pk_get_ecpubkey(buf, p, end, key) ==
    LET rd == ttls_ecp_point_read_binary(key.grp, key.Q, Slice(buf, p, end - p)) IN
    [ret |-> IF rd.ret = 0 THEN ttls_ecp_check_pubkey(key.grp, rd.Q) ELSE rd.ret,
     p |-> end,
     key |-> [key EXCEPT !.Q = rd.Q]]

\* pk_get_rsapubkey from ttls_rsa_complete on: c is its result, q the cursor.
rsapubkey_complete(q, end, c) ==
    IF c.ret # 0 \/ ttls_rsa_check_pubkey(c.rsa) # 0
    THEN [ret |-> TTLS_ERR_PK_INVALID_PUBKEY, p |-> q, rsa |-> c.rsa]
    ELSE IF q # end
    THEN [ret |-> TTLS_ERR_PK_INVALID_PUBKEY + TTLS_ERR_ASN1_LENGTH_MISMATCH,
          p |-> q, rsa |-> c.rsa]
    ELSE [ret |-> 0, p |-> q, rsa |-> c.rsa]

\* "Import E": e is the header of the INTEGER.
rsapubkey_E(buf, end, rsa, e) ==
    IF e.ret # 0
    THEN [ret |-> TTLS_ERR_PK_INVALID_PUBKEY + e.ret, p |-> e.p, rsa |-> rsa]
    ELSE rsapubkey_complete(e.p + e.len, end,
             ttls_rsa_complete(
                 ttls_rsa_import_raw(rsa, "E", Slice(buf, e.p, e.len))))

\* "Import N": n is the header of the INTEGER.
rsapubkey_N(buf, end, rsa, n) ==
    IF n.ret # 0
    THEN [ret |-> TTLS_ERR_PK_INVALID_PUBKEY + n.ret, p |-> n.p, rsa |-> rsa]
    ELSE rsapubkey_E(buf, end,
                     ttls_rsa_import_raw(rsa, "N", Slice(buf, n.p, n.len)),
                     asn1_get_tag(buf, n.p + n.len, end, TTLS_ASN1_INTEGER))

\* s is the header of the SEQUENCE.
rsapubkey_seq(buf, end, rsa, s) ==
    IF s.ret # 0
    THEN [ret |-> TTLS_ERR_PK_INVALID_PUBKEY + s.ret, p |-> s.p, rsa |-> rsa]
    ELSE IF s.p + s.len # end
    THEN [ret |-> TTLS_ERR_PK_INVALID_PUBKEY + TTLS_ERR_ASN1_LENGTH_MISMATCH,
          p |-> s.p, rsa |-> rsa]
    ELSE rsapubkey_N(buf, end, rsa,
                     asn1_get_tag(buf, s.p, end, TTLS_ASN1_INTEGER))

pk_get_rsapubkey(buf, p, end, rsa) ==
    rsapubkey_seq(buf, end, rsa, asn1_get_tag(buf, p, end, SEQ_TAG))

\* pk_get_pk_alg behind ttls_asn1_get_alg: a is its result.
pk_alg_checks(buf, a) ==
    IF a.ret # 0
    THEN [ret |-> TTLS_ERR_PK_INVALID_ALG + a.ret, p |-> a.p,
          pk_alg |-> "NONE", params |-> a.params]
    ELSE
    LET o == ttls_oid_get_pk_alg(Slice(buf, a.alg.p, a.alg.len)) IN
    IF o.ret # 0
    THEN [ret |-> TTLS_ERR_PK_UNKNOWN_PK_ALG, p |-> a.p,
          pk_alg |-> "NONE", params |-> a.params]
    ELSE IF /\ o.alg = "RSA"
            /\ \/ (a.params.tag # TTLS_ASN1_NULL /\ a.params.tag # 0)
               \/ a.params.len # 0
    THEN [ret |-> TTLS_ERR_PK_INVALID_ALG, p |-> a.p,
          pk_alg |-> o.alg, params |-> a.params]
    ELSE [ret |-> 0, p |-> a.p, pk_alg |-> o.alg, params |-> a.params]

pk_get_pk_alg(buf, p, end) == pk_alg_checks(buf, asn1_get_alg(buf, p, end))

\* ttls_pk_parse_subpubkey behind the BIT STRING header b, up to the call
\* of ttls_pk_setup.
subpubkey_bits(end2, a, b) ==
    IF b.ret # 0
    THEN [ret |-> TTLS_ERR_PK_INVALID_PUBKEY + b.ret, p |-> b.p, end |-> end2,
          pk_alg |-> a.pk_alg, params |-> a.params]
    ELSE IF b.p + b.len # end2
    THEN [ret |-> TTLS_ERR_PK_INVALID_PUBKEY + TTLS_ERR_ASN1_LENGTH_MISMATCH,
          p |-> b.p, end |-> end2, pk_alg |-> a.pk_alg, params |-> a.params]
    ELSE IF ttls_pk_info_from_type(a.pk_alg) = "NONE"
    THEN [ret |-> TTLS_ERR_PK_UNKNOWN_PK_ALG, p |-> b.p, end |-> end2,
          pk_alg |-> a.pk_alg, params |-> a.params]
    ELSE [ret |-> 0, p |-> b.p, end |-> end2,
          pk_alg |-> a.pk_alg, params |-> a.params]

\* ttls_pk_parse_subpubkey behind pk_get_pk_alg: a is its result.
subpubkey_alg(buf, end2, a) ==
    IF a.ret # 0
    THEN [ret |-> a.ret, p |-> a.p, end |-> end2,
          pk_alg |-> a.pk_alg, params |-> a.params]
    ELSE subpubkey_bits(end2, a, asn1_get_bitstring_null(buf, a.p, end2))

\* ttls_pk_parse_subpubkey behind the header s of the SEQUENCE.
subpubkey_seq(buf, end, s) ==
    IF s.ret # 0
    THEN [ret |-> KEY_FMT + s.ret, p |-> s.p, end |-> end,
          pk_alg |-> "NONE", params |-> NoBuf]
    ELSE subpubkey_alg(buf, s.p + s.len, pk_get_pk_alg(buf, s.p, s.p + s.len))

\* ttls_pk_parse_subpubkey up to the call of ttls_pk_setup.
subpubkey_head(buf, p, end) ==
    subpubkey_seq(buf, end, asn1_get_tag(buf, p, end, SEQ_TAG))

\* The RSA branch of ttls_pk_parse_subpubkey: x is the result of
\* pk_get_rsapubkey.
subpubkey_rsa(pk, x) ==
    [ret |-> x.ret, p |-> x.p, pk |-> [pk EXCEPT !.rsa = x.rsa]]

\* The EC branch behind pk_use_ecparams: x is the result of pk_get_ecpubkey.
subpubkey_ecpub(pk, x) ==
    [ret |-> x.ret, p |-> x.p, pk |-> [pk EXCEPT !.ec = x.key]]

\* The EC branch of ttls_pk_parse_subpubkey: u is the result of
\* pk_use_ecparams.
subpubkey_ec(buf, p, end, pk, u) ==
    IF u.ret # 0
    THEN [ret |-> u.ret, p |-> p, pk |-> [pk EXCEPT !.ec.grp = u.grp]]
    ELSE subpubkey_ecpub(pk, pk_get_ecpubkey(buf, p, end,
                                             [pk.ec EXCEPT !.grp = u.grp]))

\* The final length check of ttls_pk_parse_subpubkey: k is the result of
\* the branch taken.
subpubkey_end(end, k) ==
    IF k.ret = 0 /\ k.p # end
    THEN [k EXCEPT !.ret = TTLS_ERR_PK_INVALID_PUBKEY + TTLS_ERR_ASN1_LENGTH_MISMATCH]
    ELSE k

\* ttls_pk_parse_subpubkey after ttls_pk_setup, up to the final
\* if (ret != 0) ttls_pk_free(pk).
subpubkey_key(buf, p, end, pk_alg, params, pk) ==
    IF pk_alg = "RSA"
    THEN subpubkey_end(end, subpubkey_rsa(pk, pk_get_rsapubkey(buf, p, end, pk.rsa)))
    ELSE IF pk_alg \in {"ECKEY_DH", "ECKEY"}
    THEN subpubkey_end(end, subpubkey_ec(buf, p, end, pk,
                                         pk_use_ecparams(buf, params, pk.ec.grp)))
    ELSE [ret |-> TTLS_ERR_PK_UNKNOWN_PK_ALG, p |-> p, pk |-> pk]

\* One "Import X" step of pk_parse_key_pkcs1_der on the cursor
\* c = [ret, p, end, rsa]: the INTEGER header, then ttls_rsa_import_raw of
\* its payload.  A cursor with ret # 0 is on its way to the cleanup label.
pkcs1_import(buf, c, field) ==
    IF c.ret # 0 THEN c
    ELSE
    LET t == asn1_get_tag(buf, c.p, c.end, TTLS_ASN1_INTEGER) IN
    IF t.ret # 0 THEN [c EXCEPT !.ret = t.ret, !.p = t.p]
    ELSE [c EXCEPT !.p = t.p + t.len,
                   !.rsa = ttls_rsa_import_raw(c.rsa, field, Slice(buf, t.p, t.len))]

\* "Complete the RSA private key".
pkcs1_complete(c) ==
    IF c.ret # 0 THEN c
    ELSE
    LET x == ttls_rsa_complete(c.rsa) IN
    [c EXCEPT !.ret = x.ret, !.rsa = x.rsa]

\* One ttls_asn1_get_mpi into the scratch T.
pkcs1_mpi(buf, c) ==
    IF c.ret # 0 THEN c
    ELSE
    LET t == asn1_get_mpi(buf, c.p, c.end) IN
    [c EXCEPT !.ret = t.ret, !.p = t.p]

\* Mutant of pkcs1_crt: the first INTEGER is imported as DP.
pkcs1_crt_imported(buf, c) ==
    IF c.ret # 0 THEN c
    ELSE
    LET a == asn1_get_mpi(buf, c.p, c.end) IN
    IF a.ret # 0 THEN [c EXCEPT !.ret = a.ret, !.p = a.p]
    ELSE pkcs1_mpi(buf, pkcs1_mpi(buf, [c EXCEPT !.p = a.p, !.rsa.DP = a.val]))

\* "Check optional parameters": three INTEGERs.
pkcs1_crt(buf, c) == pkcs1_mpi(buf, pkcs1_mpi(buf, pkcs1_mpi(buf, c)))

\* if (p != end) in front of the cleanup label.
pkcs1_end(c) ==
    IF c.ret = 0 /\ c.p # c.end
    THEN [c EXCEPT !.ret = KEY_FMT + TTLS_ERR_ASN1_LENGTH_MISMATCH]
    ELSE c

\* pk_parse_key_pkcs1_der from "Import N" to the cleanup label.
pkcs1_body(buf, c) ==
    pkcs1_end(pkcs1_crt(buf, pkcs1_complete(
        pkcs1_import(buf,
            pkcs1_import(buf,
                pkcs1_import(buf,
                    pkcs1_import(buf,
                        pkcs1_import(buf, c, "N"),
                    "E"),
                "D"),
            "P"),
        "Q"))))

\* Mutant of pkcs1_cleanup: the status is returned as it came.
pkcs1_cleanup_no_wrap(c) ==
    IF c.ret # 0
    THEN [ret |-> c.ret, rsa |-> EmptyRsa, p |-> c.p]
    ELSE [ret |-> 0, rsa |-> c.rsa, p |-> c.p]

\* The cleanup label of pk_parse_key_pkcs1_der.
pkcs1_cleanup(c) ==
    IF c.ret # 0
    THEN [ret |-> IF AndFF80(c.ret) = 0 THEN KEY_FMT + c.ret ELSE KEY_FMT,
          rsa |-> EmptyRsa, p |-> c.p]
    ELSE [ret |-> 0, rsa |-> c.rsa, p |-> c.p]

\* pk_parse_key_pkcs1_der behind the version v.
pkcs1_version(rsa, buf, end, v) ==
    IF v.ret # 0 THEN [ret |-> KEY_FMT + v.ret, rsa |-> rsa, p |-> v.p]
    ELSE IF v.val # 0
    THEN [ret |-> TTLS_ERR_PK_KEY_INVALID_VERSION, rsa |-> rsa, p |-> v.p]
    ELSE pkcs1_cleanup(
             pkcs1_body(buf, [ret |-> 0, p |-> v.p, end |-> end, rsa |-> rsa]))

\* pk_parse_key_pkcs1_der behind the header s of the SEQUENCE.
pkcs1_seq(rsa, buf, s) ==
    IF s.ret # 0 THEN [ret |-> KEY_FMT + s.ret, rsa |-> rsa, p |-> s.p]
    ELSE pkcs1_version(rsa, buf, s.p + s.len, asn1_get_int(buf, s.p, s.p + s.len))

pk_parse_key_pkcs1_der(rsa, buf, key, keylen) ==
    pkcs1_seq(rsa, buf, asn1_get_tag(buf, key, key + keylen, SEQ_TAG))

\* pk_parse_key_sec1_der works on the cursor
\* c = [stop, ret, p, end, eck, pubkey_done, rd_called, rd, end2]; stop =
\* TRUE: the function has returned ret; rd_called, rd, end2: pk_get_ecpubkey
\* was called on the BIT STRING ending at end2 and returned rd.

\* What a return of pk_parse_key_sec1_der leaves: the status, the key pair,
\* the cursor, the call of pk_get_ecpubkey and whether ttls_ecp_mul ran.
sec1_return(ret, eck, p) ==
    [ret |-> ret, eck |-> eck, p |-> p,
     rd_called |-> FALSE, rd |-> 0, end2 |-> 0, mul |-> FALSE]

sec1_result(c, ret, eck, mul) ==
    [ret |-> ret, eck |-> eck, p |-> c.p,
     rd_called |-> c.rd_called, rd |-> c.rd, end2 |-> c.end2, mul |-> mul]

\* The 'parameters' block behind pk_get_ecparams: g is its result.
sec1_ecparams(buf, c, g) ==
    IF g.ret # 0
    THEN [c EXCEPT !.stop = TRUE, !.ret = g.ret, !.p = g.p, !.eck = EmptyEc]
    ELSE
    LET u == pk_use_ecparams(buf, g.params, c.eck.grp) IN
    IF u.ret # 0
    THEN [c EXCEPT !.stop = TRUE, !.ret = u.ret, !.p = g.p, !.eck = EmptyEc]
    ELSE [c EXCEPT !.ret = 0, !.p = g.p, !.eck.grp = u.grp]

\* The "Is 'parameters' present?" block of pk_parse_key_sec1_der.
sec1_params(buf, c) ==
    LET a == asn1_get_tag(buf, c.p, c.end, CTX0_TAG) IN
    IF a.ret = 0
    THEN sec1_ecparams(buf, c, pk_get_ecparams(buf, a.p, a.p + a.len))
    ELSE IF a.ret # TTLS_ERR_ASN1_UNEXPECTED_TAG
    THEN [c EXCEPT !.stop = TRUE, !.ret = KEY_FMT + a.ret, !.p = a.p,
                   !.eck = EmptyEc]
    ELSE [c EXCEPT !.ret = a.ret, !.p = a.p]

\* The 'publickey' block behind pk_get_ecpubkey: k is its result.
sec1_pubkey_point(c, k) ==
    IF k.ret = 0
    THEN [c EXCEPT !.ret = 0, !.p = k.p, !.eck = k.key, !.pubkey_done = TRUE,
                   !.rd_called = TRUE, !.rd = k.ret]
    ELSE IF k.ret # TTLS_ERR_ECP_FEATURE_UNAVAILABLE
    THEN [c EXCEPT !.stop = TRUE, !.ret = KEY_FMT, !.p = k.p, !.eck = k.key,
                   !.rd_called = TRUE, !.rd = k.ret]
    ELSE [c EXCEPT !.ret = k.ret, !.p = k.p, !.eck = k.key,
                   !.rd_called = TRUE, !.rd = k.ret]

\* The 'publickey' block behind the BIT STRING header bs.
sec1_pubkey_bits(buf, c, end2, bs) ==
    IF bs.ret # 0
    THEN [c EXCEPT !.stop = TRUE, !.ret = KEY_FMT + bs.ret, !.p = bs.p]
    ELSE IF bs.p + bs.len # end2
    THEN [c EXCEPT !.stop = TRUE, !.ret = KEY_FMT + TTLS_ERR_ASN1_LENGTH_MISMATCH,
                   !.p = bs.p]
    ELSE sec1_pubkey_point([c EXCEPT !.end2 = end2],
                           pk_get_ecpubkey(buf, bs.p, end2, c.eck))

\* The "Is 'publickey' present?" block of pk_parse_key_sec1_der.
sec1_pubkey(buf, c) ==
    IF c.stop THEN c
    ELSE
    LET b == asn1_get_tag(buf, c.p, c.end, CTX1_TAG) IN
    IF b.ret = 0
    THEN sec1_pubkey_bits(buf, c, b.p + b.len,
                          asn1_get_bitstring_null(buf, b.p, b.p + b.len))
    ELSE IF b.ret # TTLS_ERR_ASN1_UNEXPECTED_TAG
    THEN [c EXCEPT !.stop = TRUE, !.ret = KEY_FMT + b.ret, !.p = b.p,
                   !.eck = EmptyEc]
    ELSE [c EXCEPT !.ret = b.ret, !.p = b.p]

\* if (p != end) { parameters; publickey }.
sec1_optional(buf, c) ==
    IF c.p = c.end THEN c ELSE sec1_pubkey(buf, sec1_params(buf, c))

\* The end of pk_parse_key_sec1_der: ttls_ecp_mul unless the public key
\* was read, then ttls_ecp_check_privkey.
sec1_finish(c) ==
    IF c.stop THEN sec1_result(c, c.ret, c.eck, FALSE)
    ELSE
    LET m == IF c.pubkey_done THEN [ret |-> 0, Q |-> c.eck.Q]
             ELSE ttls_ecp_mul(c.eck.grp, c.eck.Q, c.eck.d) IN
    IF m.ret # 0 THEN sec1_result(c, KEY_FMT + m.ret, EmptyEc, ~c.pubkey_done)
    ELSE IF ttls_ecp_check_privkey(c.eck.grp, c.eck.d) # 0
    THEN sec1_result(c, ttls_ecp_check_privkey(c.eck.grp, c.eck.d), EmptyEc,
                     ~c.pubkey_done)
    ELSE sec1_result(c, 0, [c.eck EXCEPT !.Q = m.Q], ~c.pubkey_done)

\* pk_parse_key_sec1_der behind the header o of the privateKey OCTET STRING.
sec1_privkey(eck, buf, end, o) ==
    IF o.ret # 0 THEN sec1_return(KEY_FMT + o.ret, eck, o.p)
    ELSE sec1_finish(sec1_optional(buf,
             [stop |-> FALSE, ret |-> 0, p |-> o.p + o.len, end |-> end,
              eck |-> [eck EXCEPT !.d = BigEndian(Slice(buf, o.p, o.len))],
              pubkey_done |-> FALSE,
              rd_called |-> FALSE, rd |-> 0, end2 |-> 0]))

\* pk_parse_key_sec1_der behind the version v.
sec1_version(eck, buf, end, v) ==
    IF v.ret # 0 THEN sec1_return(KEY_FMT + v.ret, eck, v.p)
    ELSE IF v.val # 1 THEN sec1_return(TTLS_ERR_PK_KEY_INVALID_VERSION, eck, v.p)
    ELSE sec1_privkey(eck, buf, end,
                      asn1_get_tag(buf, v.p, end, TTLS_ASN1_OCTET_STRING))

\* pk_parse_key_sec1_der behind the header s of the SEQUENCE.
sec1_seq(eck, buf, s) ==
    IF s.ret # 0 THEN sec1_return(KEY_FMT + s.ret, eck, s.p)
    ELSE sec1_version(eck, buf, s.p + s.len, asn1_get_int(buf, s.p, s.p + s.len))

pk_parse_key_sec1_der(eck, buf, key, keylen) ==
    sec1_seq(eck, buf, asn1_get_tag(buf, key, key + keylen, SEQ_TAG))

\* pk_parse_key_pkcs8_unencrypted_der behind the header o of the
\* privateKey OCTET STRING, up to the call of ttls_pk_setup.
pkcs8_octets(a, o) ==
    IF o.ret # 0
    THEN [ret |-> KEY_FMT + o.ret, p |-> o.p, len |-> o.len,
          pk_alg |-> a.pk_alg, params |-> a.params]
    ELSE IF o.len < 1
    THEN [ret |-> KEY_FMT + TTLS_ERR_ASN1_OUT_OF_DATA, p |-> o.p, len |-> o.len,
          pk_alg |-> a.pk_alg, params |-> a.params]
    ELSE IF ttls_pk_info_from_type(a.pk_alg) = "NONE"
    THEN [ret |-> TTLS_ERR_PK_UNKNOWN_PK_ALG, p |-> o.p, len |-> o.len,
          pk_alg |-> a.pk_alg, params |-> a.params]
    ELSE [ret |-> 0, p |-> o.p, len |-> o.len,
          pk_alg |-> a.pk_alg, params |-> a.params]

\* Behind pk_get_pk_alg: a is its result.
pkcs8_alg(buf, end, a) ==
    IF a.ret # 0
    THEN [ret |-> KEY_FMT + a.ret, p |-> a.p, len |-> 0,
          pk_alg |-> a.pk_alg, params |-> a.params]
    ELSE pkcs8_octets(a, asn1_get_tag(buf, a.p, end, TTLS_ASN1_OCTET_STRING))

\* Behind the version v.
pkcs8_version(buf, end, v) ==
    IF v.ret # 0
    THEN [ret |-> KEY_FMT + v.ret, p |-> v.p, len |-> 0,
          pk_alg |-> "NONE", params |-> NoBuf]
    ELSE IF v.val # 0
    THEN [ret |-> TTLS_ERR_PK_KEY_INVALID_VERSION + v.ret, p |-> v.p, len |-> 0,
          pk_alg |-> "NONE", params |-> NoBuf]
    ELSE pkcs8_alg(buf, end, pk_get_pk_alg(buf, v.p, end))

\* Behind the header s of the SEQUENCE.
pkcs8_seq(buf, s) ==
    IF s.ret # 0
    THEN [ret |-> KEY_FMT + s.ret, p |-> s.p, len |-> 0,
          pk_alg |-> "NONE", params |-> NoBuf]
    ELSE pkcs8_version(buf, s.p + s.len, asn1_get_int(buf, s.p, s.p + s.len))

\* Mutant of pkcs8_head: the end of the input is taken from the memory
\* behind key, not from keylen.
pkcs8_head_ignores_keylen(buf, key, keylen) ==
    pkcs8_seq(buf, asn1_get_tag(buf, key, Len(buf), SEQ_TAG))

\* pk_parse_key_pkcs8_unencrypted_der up to the call of ttls_pk_setup.
pkcs8_head(buf, key, keylen) ==
    pkcs8_seq(buf, asn1_get_tag(buf, key, key + keylen, SEQ_TAG))

(***************************************************************************)
(* PEM framer (pem.h).  A marker line is one token of the text: the BEGIN  *)
(* line of envelope i is 1000 + i, its END line 2000 + i (1: RSA PRIVATE   *)
(* KEY, 2: EC PRIVATE KEY, 3: PRIVATE KEY); PEM_ENCRYPTED is the           *)
(* "Proc-Type: 4,ENCRYPTED" line.  The armored body carries each byte as   *)
(* two characters 'A' + nibble.  The text is a C string: it ends at the    *)
(* first NUL.                                                              *)
(***************************************************************************)
PEM_ENCRYPTED == 3000

LabelNo(label) == IF label = "RSA" THEN 1 ELSE IF label = "EC" THEN 2 ELSE 3

PemBegin(label) == 1000 + LabelNo(label)

PemEnd(label) == 2000 + LabelNo(label)

RECURSIVE PemEncode(_)
PemEncode(bytes) ==
    IF bytes = << >> THEN << >>
    ELSE <<65 + (bytes[1] \div 16), 65 + (bytes[1] % 16)>> \o PemEncode(Tail(bytes))

RECURSIVE PemDecode(_)
PemDecode(chars) ==
    IF Len(chars) < 2 THEN << >>
    ELSE <<16 * (chars[1] - 65) + (chars[2] - 65)>> \o PemDecode(Tail(Tail(chars)))

CStrLen(buf) ==
    IF \E i \in 1..Len(buf) : buf[i] = 0
    THEN (CHOOSE i \in 1..Len(buf) : buf[i] = 0 /\ \A j \in 1..(i - 1) : buf[j] # 0) - 1
    ELSE Len(buf)

\* First position of token tok in the C string buf, 0 if there is none.
StrTok(buf, tok) ==
    LET n == CStrLen(buf) IN
    IF \E i \in 1..n : buf[i] = tok
    THEN CHOOSE i \in 1..n : buf[i] = tok /\ \A j \in 1..(i - 1) : buf[j] # tok
    ELSE 0

\* Decodes the envelope in place: the decoded bytes replace the head of
\* the buffer and their count is returned.
ttls_pem_read_buffer(label, buf) ==
    LET s1 == StrTok(buf, PemBegin(label))
        s2 == StrTok(buf, PemEnd(label)) IN
    IF s1 = 0 \/ s2 = 0 \/ s2 <= s1
    THEN [ret |-> TTLS_ERR_PEM_NO_HEADER_FOOTER_PRESENT, buf |-> buf]
    ELSE
    LET body == SubSeq(buf, s1 + 1, s2 - 1) IN
    IF body # << >> /\ body[1] = PEM_ENCRYPTED
    THEN [ret |-> TTLS_ERR_PEM_PASSWORD_REQUIRED, buf |-> buf]
    ELSE IF Len(body) % 2 = 1 \/ \E i \in 1..Len(body) : body[i] \notin 65..80
    THEN [ret |-> TTLS_ERR_PEM_INVALID_DATA, buf |-> buf]
    ELSE
    LET dec == PemDecode(body) IN
    [ret |-> Len(dec),
     buf |-> [i \in 1..Len(buf) |-> IF i <= Len(dec) THEN dec[i] ELSE buf[i]]]

(***************************************************************************)
(* Inputs.  An input is described by a record and encoded to bytes by the  *)
(* grammars the decoders document (DER, short-form lengths).               *)
(***************************************************************************)
MaxVersion == 2
MaxScalar == 5
MaxPubX == 2
MaxTrail == 1
MaxParamTag == 6
MaxParamLen == 1
MaxCrt == 3

TLV(tag, content) == <<tag, Len(content)>> \o content

Int1(v) == TLV(TTLS_ASN1_INTEGER, <<v>>)

RECURSIVE Ints(_)
Ints(vals) == IF vals = << >> THEN << >> ELSE Int1(vals[1]) \o Ints(Tail(vals))

RECURSIVE Zeros(_)
Zeros(n) == IF n = 0 THEN << >> ELSE <<0>> \o Zeros(n - 1)

\* RSAPrivateKey ::= SEQUENCE { version, n, e, d, p, q, dP, dQ, qInv, ... }
Pkcs1Der(ver, k, crt, extra) ==
    TLV(SEQ_TAG, Ints(<<ver, k.N, k.E, k.D, k.P, k.Q>>) \o Ints(crt) \o extra)

\* ECPrivateKey ::= SEQUENCE { version, privateKey, [0] parameters, [1] publicKey }
Sec1Der(ver, d, params, pub, extra) ==
    TLV(SEQ_TAG, Int1(ver) \o TLV(TTLS_ASN1_OCTET_STRING, <<d>>)
                 \o params \o pub \o extra)

AlgId(oid, params) == TLV(SEQ_TAG, TLV(TTLS_ASN1_OID, oid) \o params)

\* PrivateKeyInfo ::= SEQUENCE { version, privateKeyAlgorithm, privateKey, [0] attributes }
Pkcs8Der(ver, oid, params, inner, attrs) ==
    TLV(SEQ_TAG, Int1(ver) \o AlgId(oid, params)
                 \o TLV(TTLS_ASN1_OCTET_STRING, inner) \o attrs)

\* SubjectPublicKeyInfo ::= SEQUENCE { algorithm, subjectPublicKey BIT STRING }
SpkiDer(oid, params, bits) ==
    TLV(SEQ_TAG, AlgId(oid, params) \o TLV(TTLS_ASN1_BIT_STRING, <<0>> \o bits))

RsaPubDer(n, e) == TLV(SEQ_TAG, Ints(<<n, e>>))

PemArmor(label, der) == <<PemBegin(label)>> \o PemEncode(der) \o <<PemEnd(label)>>

CurveParam(oid) == TLV(TTLS_ASN1_OID, oid)

Sec1Params(oid) == TLV(CTX0_TAG, CurveParam(oid))

Sec1Pub(point) == TLV(CTX1_TAG, TLV(TTLS_ASN1_BIT_STRING, <<0>> \o point))

NullParam == TLV(TTLS_ASN1_NULL, << >>)

RsaKey(n, e, d, p, q) == [N |-> n, E |-> e, D |-> d, P |-> p, Q |-> q]

NoKey == RsaKey(0, 0, 0, 0, 0)

RsaGood == {RsaKey(15, 3, 3, 3, 5), RsaKey(35, 5, 5, 5, 7)}

\* E = 1; P = Q; D not the inverse of E.
RsaBad == {RsaKey(15, 1, 1, 3, 5), RsaKey(9, 3, 3, 3, 3), RsaKey(15, 3, 2, 3, 5)}

\* The CRT triplet of the key, as the encoder writes it.
CrtOf(k) ==
    IF k.P < 2 \/ k.Q < 2 THEN << >>
    ELSE <<k.D % (k.P - 1), k.D % (k.Q - 1),
           CHOOSE x \in 0..k.P : k.P = k.Q \/ (x * k.Q) % k.P = 1>>

CrtOpts(k) == {CrtOf(k), <<1, 1, 1>>, <<1, 1>>}

Extras == {<< >>, NullParam}

Trails == UNION {[1..n -> {0, 7}] : n \in 0..MaxTrail}

CurveOids == {OID_CURVE_A, OID_CURVE_B}

Points == UNION {{<<4, x, GrpN(1) - x>>, <<4, x, GrpN(2) - x>>} : x \in 1..MaxPubX}
          \cup {<<2, 1>>, <<0>>}

PubOpts == {<< >>} \cup {Sec1Pub(pt) : pt \in Points}

ParamOpts == {<< >>} \cup {Sec1Params(o) : o \in CurveOids \cup {<<18>>}}

D0 == [op |-> "parse_key", gram |-> "text", ver |-> 0, rsa |-> NoKey,
       crt |-> << >>, d |-> 0, params |-> << >>, pub |-> << >>, extra |-> << >>,
       p8 |-> FALSE, ver8 |-> 0, oid |-> << >>, aparams |-> << >>, attrs |-> << >>,
       armor |-> "raw", nul |-> FALSE, trail |-> << >>, body |-> << >>,
       cut |-> 0]

\* PKCS#1 keys: the good keys under every version; under version 0 every
\* key with every CRT triplet, with and without bytes after the ninth
\* INTEGER.
Pkcs1Descs ==
    {[D0 EXCEPT !.gram = "pkcs1", !.ver = v, !.rsa = k, !.crt = CrtOf(k)] :
        v \in 0..MaxVersion, k \in RsaGood}
    \cup
    {[D0 EXCEPT !.gram = "pkcs1", !.rsa = k, !.crt = c, !.extra = x] :
        k \in RsaGood \cup RsaBad, c \in CrtOpts(RsaKey(15, 3, 3, 3, 5)), x \in Extras}

\* SEC1 keys: under version 1 every scalar with every parameters and
\* publicKey field; a few of them under the other versions and with bytes
\* after the last field.
Sec1Descs ==
    {[D0 EXCEPT !.gram = "sec1", !.ver = 1, !.d = d, !.params = pa, !.pub = pu] :
        d \in 0..MaxScalar, pa \in ParamOpts, pu \in PubOpts}
    \cup
    {[D0 EXCEPT !.gram = "sec1", !.ver = v, !.d = 1, !.params = pa, !.pub = pu,
                !.extra = x] :
        v \in 0..MaxVersion, pa \in {<< >>, Sec1Params(OID_CURVE_A)},
        pu \in {<< >>, Sec1Pub(<<4, 1, GrpN(1) - 1>>)}, x \in Extras}

\* PKCS#8 wrappers: RSA with absent, NULL or OID parameters around a
\* PKCS#1 key; EC with a curve (or with no parameters) around a SEC1 key;
\* an unknown algorithm.
Pkcs8Descs ==
    {[i EXCEPT !.p8 = TRUE, !.ver8 = v, !.oid = OID_RSA, !.aparams = ap, !.attrs = at] :
        i \in {x \in Pkcs1Descs : x.extra = << >> /\ x.crt = CrtOf(x.rsa)},
        v \in 0..MaxVersion, ap \in {<< >>, NullParam, CurveParam(OID_CURVE_A)},
        at \in {<< >>}}
    \cup
    {[i EXCEPT !.p8 = TRUE, !.oid = OID_EC_ALG_UNRESTRICTED, !.aparams = ap] :
        i \in {x \in Sec1Descs : x.extra = << >> /\ x.ver = 1},
        ap \in {<< >>} \cup {CurveParam(c) : c \in CurveOids}}
    \cup
    {[i EXCEPT !.p8 = TRUE, !.ver8 = v, !.oid = o, !.aparams = CurveParam(OID_CURVE_A),
               !.attrs = at] :
        i \in {x \in Sec1Descs : x.extra = << >> /\ x.d = 1 /\ x.params = << >>},
        v \in 0..MaxVersion, o \in {OID_EC_ALG_UNRESTRICTED, OID_EC_ALG_ECDH},
        at \in {<< >>, TLV(CTX0_TAG, << >>)}}
    \cup
    {[i EXCEPT !.p8 = TRUE, !.oid = <<9>>, !.aparams = NullParam] :
        i \in {x \in Pkcs1Descs : x.ver = 0 /\ x.rsa \in RsaGood /\ x.extra = << >>
                                   /\ x.crt = CrtOf(x.rsa)}}

DerDescs == Pkcs1Descs \cup Sec1Descs \cup Pkcs8Descs

EnvelopeOf(i) == IF i.p8 THEN "PRIVATE" ELSE IF i.gram = "pkcs1" THEN "RSA" ELSE "EC"

\* Each key as raw DER (with and without trailing bytes) and armored in
\* its own envelope with the terminating NUL; some armored texts without
\* the NUL.
KeyDescs ==
    {[i EXCEPT !.trail = t] : i \in DerDescs, t \in Trails}
    \cup
    {[i EXCEPT !.armor = EnvelopeOf(i), !.nul = TRUE] : i \in DerDescs}
    \cup
    {[i EXCEPT !.armor = EnvelopeOf(i)] :
        i \in {x \in DerDescs : x.extra = << >> /\ x.d <= 1 /\ x.ver8 = 0
                                /\ x.crt = CrtOf(x.rsa)}}

\* Texts that are no key: the empty buffer, envelopes with an empty, an
\* encrypted or an undecodable body, a BEGIN line without its END line,
\* and a key armored in another grammar's envelope.
TextDescs ==
    {D0}
    \cup {[D0 EXCEPT !.body = <<PemBegin(l)>> \o b \o <<PemEnd(l)>>, !.nul = TRUE] :
            l \in {"RSA", "EC", "PRIVATE"},
            b \in {<< >>, <<PEM_ENCRYPTED, 65, 65>>, <<65>>, <<65, 90>>}}
    \cup {[D0 EXCEPT !.body = <<PemBegin(l), 65, 65>>, !.nul = TRUE] :
            l \in {"RSA", "EC", "PRIVATE"}}
    \cup {[i EXCEPT !.armor = l, !.nul = TRUE] :
            i \in {x \in Pkcs1Descs \cup Sec1Descs :
                      x.extra = << >> /\ x.crt = CrtOf(x.rsa) /\ x.d = 1
                      /\ x.pub \in {<< >>, Sec1Pub(<<4, 1, GrpN(1) - 1>>)}},
            l \in {"RSA", "EC", "PRIVATE"}}

\* SubjectPublicKeyInfo inputs: for RSA every parameters TLV of a small
\* tag and length (and the absent field); for EC the curve parameters in
\* front of every point.
ParamTlvs ==
    {<< >>} \cup {<<t, n>> \o Zeros(n) : t \in 0..MaxParamTag, n \in 0..MaxParamLen}
            \cup {CurveParam(c) : c \in CurveOids} \cup {<<5, 3>>}

SpkiDescs ==
    {[D0 EXCEPT !.op = "parse_subpubkey", !.gram = "spki", !.oid = OID_RSA,
                !.aparams = ap, !.body = b, !.trail = t] :
        ap \in ParamTlvs,
        b \in {RsaPubDer(15, 3), RsaPubDer(15, 1), RsaPubDer(15, 3) \o <<0>>},
        t \in {<< >>, <<7>>}}
    \cup
    {[D0 EXCEPT !.op = "parse_subpubkey", !.gram = "spki", !.oid = o,
                !.aparams = ap, !.body = b, !.trail = t] :
        o \in {OID_EC_ALG_UNRESTRICTED, OID_EC_ALG_ECDH, <<9>>},
        ap \in {<< >>, NullParam} \cup {CurveParam(c) : c \in CurveOids},
        b \in Points, t \in {<< >>, <<7>>}}

InnerDer(i) ==
    IF i.gram = "pkcs1" THEN Pkcs1Der(i.ver, i.rsa, i.crt, i.extra)
    ELSE IF i.gram = "sec1" THEN Sec1Der(i.ver, i.d, i.params, i.pub, i.extra)
    ELSE IF i.gram = "spki" THEN SpkiDer(i.oid, i.aparams, i.body)
    ELSE i.body

Der(i) ==
    IF i.p8 THEN Pkcs8Der(i.ver8, i.oid, i.aparams, InnerDer(i), i.attrs)
    ELSE InnerDer(i)

Encode(i) ==
    (IF i.armor = "raw" THEN Der(i) \o i.trail ELSE PemArmor(i.armor, Der(i)))
    \o (IF i.nul THEN <<0>> ELSE << >>)

\* The keys whose every proper prefix is passed as well: one valid key of
\* each grammar, bare and wrapped, as raw DER and armored.
TruncKeys ==
    {i \in KeyDescs :
        /\ i.trail = << >> /\ (i.armor = "raw" \/ i.nul)
        /\ i.ver8 = 0 /\ i.attrs = << >> /\ i.extra = << >>
        /\ \/ /\ i.gram = "pkcs1" /\ i.ver = 0
              /\ i.rsa = RsaKey(15, 3, 3, 3, 5) /\ i.crt = CrtOf(i.rsa)
              /\ i.p8 => (i.oid = OID_RSA /\ i.aparams = NullParam)
           \/ /\ i.gram = "sec1" /\ i.ver = 1 /\ i.d = 1
              /\ i.pub = Sec1Pub(<<4, 1, GrpN(1) - 1>>)
              /\ IF i.p8
                 THEN /\ i.oid = OID_EC_ALG_UNRESTRICTED
                      /\ i.aparams = CurveParam(OID_CURVE_A)
                      /\ i.params = << >>
                 ELSE i.params = Sec1Params(OID_CURVE_A)}

\* Truncations: the caller's memory holds the whole key and the call is
\* given its first k bytes, 0 <= k < the key's length.
TruncDescs ==
    UNION {{[i EXCEPT !.cut = n] : n \in 1..Len(Encode(i))} : i \in TruncKeys}

Inputs == KeyDescs \cup TextDescs \cup SpkiDescs \cup TruncDescs

(***************************************************************************)
(* State.  One call of ttls_pk_parse_key or ttls_pk_parse_subpubkey on an  *)
(* empty PK context, taken one call site at a time.                        *)
(*   inp          the description of the input (never read by the code)    *)
(*   key, key0    the caller's buffer now and as it was passed             *)
(*   pk           the PK context                                           *)
(*   pc           the position in the function; "done" after its return    *)
(*   r            the status (the return value once pc = "done")           *)
(*   dec_key_len  the decoded length of the matched PEM envelope           *)
(*   mode         "pem" until the no_pem label is reached, then "der"      *)
(*   loc          cursor, length, algorithm and parameters of the PKCS#8   *)
(*                or SubjectPublicKeyInfo decoder                          *)
(*   hist         the calls made so far                                    *)
(*   cur          what the last decoder call left: its cursor p, the end   *)
(*                lim of the bytes it was given, and for the SEC1 decoder  *)
(*                its call of pk_get_ecpubkey and of ttls_ecp_mul          *)
(***************************************************************************)
VARIABLES inp, key, key0, pk, pc, r, dec_key_len, mode, loc, hist, cur

vars == <<inp, key, key0, pk, pc, r, dec_key_len, mode, loc, hist, cur>>

NoCur == [p |-> 0, lim |-> 0, rd_called |-> FALSE, rd |-> 0, end2 |-> 0,
          mul |-> FALSE]

NoLoc == [p |-> 0, len |-> 0, end |-> 0, pk_alg |-> "NONE", params |-> NoBuf]

\* The caller passes the first keylen bytes of its memory: all of it but
\* the inp.cut bytes a truncation leaves out.
keylen == Len(key0) - inp.cut

\* The length the DER decoders are given: the decoded length after a PEM
\* match, keylen at the no_pem label.
DerLen == IF mode = "pem" THEN dec_key_len ELSE keylen

Init ==
    /\ inp \in Inputs
    /\ key = Encode(inp)
    /\ key0 = key
    /\ pk = PkEmpty
    /\ pc = IF inp.op = "parse_key" THEN "start" ELSE "sub_head"
    /\ r = 0
    /\ dec_key_len = 0
    /\ mode = "pem"
    /\ loc = NoLoc
    /\ hist = << >>
    /\ cur = NoCur

\* Mutant of Entry: the check of the terminating NUL is missing.
EntryNoNulCheck ==
    /\ pc = "start"
    /\ IF keylen = 0
       THEN /\ r' = KEY_FMT
            /\ pc' = "done"
            /\ mode' = mode
       ELSE /\ pc' = "pem_rsa"
            /\ mode' = "pem"
            /\ r' = r
    /\ UNCHANGED <<inp, key, key0, pk, dec_key_len, loc, hist, cur>>

\* ttls_pk_parse_key: the checks before the first PEM probe.
Entry ==
    /\ pc = "start"
    /\ IF keylen = 0
       THEN /\ r' = KEY_FMT
            /\ pc' = "done"
            /\ mode' = mode
       ELSE IF key[keylen] # 0
       THEN /\ pc' = "p8_head"
            /\ mode' = "der"
            /\ r' = r
       ELSE /\ pc' = "pem_rsa"
            /\ mode' = "pem"
            /\ r' = r
    /\ UNCHANGED <<inp, key, key0, pk, dec_key_len, loc, hist, cur>>

\* Mutant of PemProbe: every error lets the next probe be tried.
PemProbeErrorFallsThrough(at, label, hit, miss) ==
    /\ pc = at
    /\ \E res \in {ttls_pem_read_buffer(label, key)} :
       /\ key' = res.buf
       /\ r' = res.ret
       /\ IF res.ret > 0
          THEN /\ dec_key_len' = res.ret
               /\ pc' = hit
               /\ mode' = mode
               /\ hist' = Append(hist, "pem_hit")
          ELSE IF res.ret = 0
          THEN /\ pc' = "done"
               /\ UNCHANGED <<dec_key_len, mode>>
               /\ hist' = Append(hist, "pem_ret")
          ELSE /\ pc' = miss
               /\ mode' = IF miss = "p8_head" THEN "der" ELSE mode
               /\ UNCHANGED dec_key_len
               /\ hist' = Append(hist, "pem_miss")
    /\ UNCHANGED <<inp, key0, pk, loc, cur>>

\* One PEM probe: r > 0 selects the envelope's decoder, NO_HEADER_FOOTER
\* the next probe, anything else is returned.
PemProbe(at, label, hit, miss) ==
    /\ pc = at
    /\ \E res \in {ttls_pem_read_buffer(label, key)} :
       /\ key' = res.buf
       /\ r' = res.ret
       /\ IF res.ret > 0
          THEN /\ dec_key_len' = res.ret
               /\ pc' = hit
               /\ mode' = mode
               /\ hist' = Append(hist, "pem_hit")
          ELSE IF res.ret # TTLS_ERR_PEM_NO_HEADER_FOOTER_PRESENT
          THEN /\ pc' = "done"
               /\ UNCHANGED <<dec_key_len, mode>>
               /\ hist' = Append(hist, "pem_ret")
          ELSE /\ pc' = miss
               /\ mode' = IF miss = "p8_head" THEN "der" ELSE mode
               /\ UNCHANGED dec_key_len
               /\ hist' = Append(hist, "pem_miss")
    /\ UNCHANGED <<inp, key0, pk, loc, cur>>

PemRsa == PemProbe("pem_rsa", "RSA", "rsa_setup", "pem_ec")

PemEc == PemProbe("pem_ec", "EC", "ec_setup", "pem_p8")

PemPkcs8 == PemProbe("pem_p8", "PRIVATE", "p8_head", "p8_head")

\* ttls_pk_setup(pk, ttls_pk_info_from_type(alg)) in front of a decoder.
Setup(at, alg, ok, fail) ==
    /\ pc = at
    /\ \E s \in {ttls_pk_setup(pk, ttls_pk_info_from_type(alg))} :
       /\ pk' = s.pk
       /\ r' = s.ret
       /\ pc' = IF s.ret = 0 THEN ok ELSE fail
    /\ hist' = Append(hist, "setup")
    /\ UNCHANGED <<inp, key, key0, dec_key_len, mode, loc, cur>>

SetupRsa == Setup("rsa_setup", "RSA", "rsa_parse", "rsa_free")

SetupEc == Setup("ec_setup", "ECKEY", "ec_parse", "ec_free")

ParseRsa ==
    /\ pc = "rsa_parse"
    /\ \E x \in {pk_parse_key_pkcs1_der(pk.rsa, key, 0, DerLen)} :
       /\ pk' = [pk EXCEPT !.rsa = x.rsa]
       /\ r' = x.ret
       /\ cur' = [NoCur EXCEPT !.p = x.p, !.lim = DerLen]
       /\ pc' = IF x.ret = 0 THEN "done" ELSE "rsa_free"
    /\ hist' = Append(hist, "pkcs1")
    /\ UNCHANGED <<inp, key, key0, dec_key_len, mode, loc>>

ParseEc ==
    /\ pc = "ec_parse"
    /\ \E x \in {pk_parse_key_sec1_der(pk.ec, key, 0, DerLen)} :
       /\ pk' = [pk EXCEPT !.ec = x.eck]
       /\ r' = x.ret
       /\ cur' = [p |-> x.p, lim |-> DerLen, rd_called |-> x.rd_called,
                  rd |-> x.rd, end2 |-> x.end2, mul |-> x.mul]
       /\ pc' = IF x.ret = 0 THEN "done" ELSE "ec_free"
    /\ hist' = Append(hist, "sec1")
    /\ UNCHANGED <<inp, key, key0, dec_key_len, mode, loc>>

\* Mutant of FreeRsa: the ttls_pk_free call is missing.
FreeRsaNoFree ==
    /\ pc = "rsa_free"
    /\ pk' = pk
    /\ pc' = IF mode = "pem" THEN "done" ELSE "ec_setup"
    /\ hist' = Append(hist, "free")
    /\ UNCHANGED <<inp, key, key0, r, dec_key_len, mode, loc, cur>>

\* The ttls_pk_free after a failed RSA attempt: the PEM path returns r,
\* the raw-DER ladder goes on to the EC attempt.
FreeRsa ==
    /\ pc = "rsa_free"
    /\ pk' = ttls_pk_free(pk)
    /\ pc' = IF mode = "pem" THEN "done" ELSE "ec_setup"
    /\ hist' = Append(hist, "free")
    /\ UNCHANGED <<inp, key, key0, r, dec_key_len, mode, loc, cur>>

\* Mutant of FreeEc: the raw-DER ladder returns the status of its last
\* attempt.
FreeEcKeepsRet ==
    /\ pc = "ec_free"
    /\ pk' = ttls_pk_free(pk)
    /\ pc' = "done"
    /\ r' = r
    /\ hist' = Append(hist, "free")
    /\ UNCHANGED <<inp, key, key0, dec_key_len, mode, loc, cur>>

\* Mutant of FreeEc: the ttls_pk_free call is missing.
FreeEcNoFree ==
    /\ pc = "ec_free"
    /\ pk' = pk
    /\ pc' = "done"
    /\ r' = IF mode = "pem" THEN r ELSE KEY_FMT
    /\ hist' = Append(hist, "free")
    /\ UNCHANGED <<inp, key, key0, dec_key_len, mode, loc, cur>>

\* The ttls_pk_free after a failed EC attempt: the PEM path returns r,
\* the raw-DER ladder returns KEY_INVALID_FORMAT.
FreeEc ==
    /\ pc = "ec_free"
    /\ pk' = ttls_pk_free(pk)
    /\ pc' = "done"
    /\ r' = IF mode = "pem" THEN r ELSE KEY_FMT
    /\ hist' = Append(hist, "free")
    /\ UNCHANGED <<inp, key, key0, dec_key_len, mode, loc, cur>>

\* pk_parse_key_pkcs8_unencrypted_der, before ttls_pk_setup.
Pkcs8Head ==
    /\ pc = "p8_head"
    /\ \E h \in {pkcs8_head(key, 0, DerLen)} :
       /\ loc' = [p |-> h.p, len |-> h.len, end |-> 0,
                  pk_alg |-> h.pk_alg, params |-> h.params]
       /\ r' = h.ret
       /\ cur' = [NoCur EXCEPT !.p = h.p, !.lim = DerLen]
       /\ pc' = IF h.ret = 0 THEN "p8_setup" ELSE "p8_ret"
    /\ hist' = Append(hist, "pkcs8")
    /\ UNCHANGED <<inp, key, key0, pk, dec_key_len, mode>>

Pkcs8Setup ==
    /\ pc = "p8_setup"
    /\ \E s \in {ttls_pk_setup(pk, ttls_pk_info_from_type(loc.pk_alg))} :
       /\ pk' = s.pk
       /\ r' = s.ret
       /\ pc' = IF s.ret # 0 THEN "p8_ret"
                ELSE IF loc.pk_alg = "RSA" THEN "p8_inner" ELSE "p8_ecparams"
    /\ hist' = Append(hist, "setup")
    /\ UNCHANGED <<inp, key, key0, dec_key_len, mode, loc, cur>>

\* The EC branch: pk_use_ecparams on the outer AlgorithmIdentifier.
Pkcs8EcParams ==
    /\ pc = "p8_ecparams"
    /\ \E u \in {pk_use_ecparams(key, loc.params, pk.ec.grp)} :
       /\ pk' = [pk EXCEPT !.ec.grp = u.grp]
       /\ r' = u.ret
       /\ pc' = IF u.ret = 0 THEN "p8_inner" ELSE "p8_free"
    /\ hist' = Append(hist, "ecparams")
    /\ UNCHANGED <<inp, key, key0, dec_key_len, mode, loc, cur>>

\* The decoder of the inner OCTET STRING.
Pkcs8Inner ==
    /\ pc = "p8_inner"
    /\ IF loc.pk_alg = "RSA"
       THEN \E x \in {pk_parse_key_pkcs1_der(pk.rsa, key, loc.p, loc.len)} :
            /\ pk' = [pk EXCEPT !.rsa = x.rsa]
            /\ r' = x.ret
            /\ cur' = [NoCur EXCEPT !.p = x.p, !.lim = loc.p + loc.len]
            /\ pc' = IF x.ret = 0 THEN "p8_ret" ELSE "p8_free"
            /\ hist' = Append(hist, "pkcs1")
       ELSE \E x \in {pk_parse_key_sec1_der(pk.ec, key, loc.p, loc.len)} :
            /\ pk' = [pk EXCEPT !.ec = x.eck]
            /\ r' = x.ret
            /\ cur' = [p |-> x.p, lim |-> loc.p + loc.len,
                       rd_called |-> x.rd_called, rd |-> x.rd,
                       end2 |-> x.end2, mul |-> x.mul]
            /\ pc' = IF x.ret = 0 THEN "p8_ret" ELSE "p8_free"
            /\ hist' = Append(hist, "sec1")
    /\ UNCHANGED <<inp, key, key0, dec_key_len, mode, loc>>

Pkcs8Free ==
    /\ pc = "p8_free"
    /\ pk' = ttls_pk_free(pk)
    /\ pc' = "p8_ret"
    /\ hist' = Append(hist, "free")
    /\ UNCHANGED <<inp, key, key0, r, dec_key_len, mode, loc, cur>>

\* Mutant of Pkcs8Ret: after a failed PKCS#8 attempt the raw-DER ladder
\* goes on to the EC attempt.
Pkcs8RetSkipsRsa ==
    /\ pc = "p8_ret"
    /\ IF r = 0
       THEN /\ pk' = pk
            /\ pc' = "done"
            /\ hist' = hist
       ELSE /\ pk' = ttls_pk_free(pk)
            /\ pc' = IF mode = "pem" THEN "done" ELSE "ec_setup"
            /\ hist' = Append(hist, "free")
    /\ UNCHANGED <<inp, key, key0, r, dec_key_len, mode, loc, cur>>

\* The caller's handling of the PKCS#8 decoder's status r: the PEM path
\* frees on failure and returns r; the raw-DER ladder returns 0 or frees
\* and goes on to the RSA attempt.
Pkcs8Ret ==
    /\ pc = "p8_ret"
    /\ IF r = 0
       THEN /\ pk' = pk
            /\ pc' = "done"
            /\ hist' = hist
       ELSE /\ pk' = ttls_pk_free(pk)
            /\ pc' = IF mode = "pem" THEN "done" ELSE "rsa_setup"
            /\ hist' = Append(hist, "free")
    /\ UNCHANGED <<inp, key, key0, r, dec_key_len, mode, loc, cur>>

\* ttls_pk_parse_subpubkey, before ttls_pk_setup.
SubHead ==
    /\ pc = "sub_head"
    /\ \E h \in {subpubkey_head(key, 0, keylen)} :
       /\ loc' = [p |-> h.p, len |-> 0, end |-> h.end,
                  pk_alg |-> h.pk_alg, params |-> h.params]
       /\ r' = h.ret
       /\ cur' = [NoCur EXCEPT !.p = h.p, !.lim = keylen]
       /\ pc' = IF h.ret = 0 THEN "sub_setup" ELSE "done"
    /\ hist' = Append(hist, "subpubkey")
    /\ UNCHANGED <<inp, key, key0, pk, dec_key_len, mode>>

SubSetup ==
    /\ pc = "sub_setup"
    /\ \E s \in {ttls_pk_setup(pk, ttls_pk_info_from_type(loc.pk_alg))} :
       /\ pk' = s.pk
       /\ r' = s.ret
       /\ pc' = IF s.ret = 0 THEN "sub_key" ELSE "done"
    /\ hist' = Append(hist, "setup")
    /\ UNCHANGED <<inp, key, key0, dec_key_len, mode, loc, cur>>

SubKey ==
    /\ pc = "sub_key"
    /\ \E k \in {subpubkey_key(key, loc.p, loc.end, loc.pk_alg, loc.params, pk)} :
       /\ pk' = k.pk
       /\ loc' = [loc EXCEPT !.p = k.p]
       /\ r' = k.ret
       /\ cur' = [NoCur EXCEPT !.p = k.p, !.lim = loc.end]
       /\ pc' = IF k.ret = 0 THEN "done" ELSE "sub_free"
    /\ hist' = Append(hist, "pubkey")
    /\ UNCHANGED <<inp, key, key0, dec_key_len, mode>>

SubFree ==
    /\ pc = "sub_free"
    /\ pk' = ttls_pk_free(pk)
    /\ pc' = "done"
    /\ hist' = Append(hist, "free")
    /\ UNCHANGED <<inp, key, key0, r, dec_key_len, mode, loc, cur>>

Next ==
    \/ Entry
    \/ PemRsa
    \/ PemEc
    \/ PemPkcs8
    \/ SetupRsa
    \/ ParseRsa
    \/ FreeRsa
    \/ SetupEc
    \/ ParseEc
    \/ FreeEc
    \/ Pkcs8Head
    \/ Pkcs8Setup
    \/ Pkcs8EcParams
    \/ Pkcs8Inner
    \/ Pkcs8Free
    \/ Pkcs8Ret
    \/ SubHead
    \/ SubSetup
    \/ SubKey
    \/ SubFree

Spec == Init /\ [][Next]_vars

(***************************************************************************)
(* Vocabulary of the properties.  A status is the sum of a high-level      *)
(* kind (a multiple of 128) and a low-level cause (below 128).             *)
(***************************************************************************)
Kind(ret) == -(((-ret) \div 128) * 128)

Cause(ret) == -((-ret) % 128)

Returned == pc = "done"

ParseKey == inp.op = "parse_key"

\* The key is passed as raw DER.
Raw == inp.armor = "raw"

\* The key is passed as a NUL-terminated text, armored in its own envelope.
Armored == inp.armor = EnvelopeOf(inp) /\ inp.nul

\* The curve an ECParameters field names, 0 if it names none.
ParamCurve(pa) ==
    IF pa = Sec1Params(OID_CURVE_A) THEN 1
    ELSE IF pa = Sec1Params(OID_CURVE_B) THEN 2 ELSE 0

OuterCurve(ap) ==
    IF ap = CurveParam(OID_CURVE_A) THEN 1
    ELSE IF ap = CurveParam(OID_CURVE_B) THEN 2 ELSE 0

KeyCurve(i) == IF i.p8 THEN OuterCurve(i.aparams) ELSE ParamCurve(i.params)

\* d * G on the key's curve.
PointOf(i) == [X |-> i.d, Y |-> GrpN(KeyCurve(i)) - i.d, Z |-> 1]

ValidRsa(i) ==
    /\ i.ver = 0
    /\ i.rsa \in RsaGood
    /\ i.crt = CrtOf(i.rsa)
    /\ i.extra = << >>

ValidEc(i) ==
    /\ i.ver = 1
    /\ i.extra = << >>
    /\ KeyCurve(i) # 0
    /\ i.params = << >> \/ ParamCurve(i.params) = KeyCurve(i)
    /\ i.d >= 1 /\ i.d < GrpN(KeyCurve(i))
    /\ i.pub \in {<< >>, Sec1Pub(<<4, i.d, GrpN(KeyCurve(i)) - i.d>>),
                  Sec1Pub(<<2, i.d>>)}

ValidWrapper(i) ==
    /\ i.ver8 = 0
    /\ \/ i.gram = "pkcs1" /\ i.oid = OID_RSA /\ i.aparams \in {<< >>, NullParam}
       \/ i.gram = "sec1" /\ i.oid \in {OID_EC_ALG_UNRESTRICTED, OID_EC_ALG_ECDH}

\* The input describes a valid private key in one of the three grammars.
ValidKey(i) ==
    /\ i.op = "parse_key"
    /\ i.cut = 0
    /\ \/ i.gram = "pkcs1" /\ ValidRsa(i)
       \/ i.gram = "sec1" /\ ValidEc(i)
    /\ i.p8 => ValidWrapper(i)

\* The first bytes of a valid key, at least one byte short of it.
Truncated(i) == i.cut > 0 /\ ValidKey([i EXCEPT !.cut = 0])

\* A PEM probe has been made or is about to be made.
PemReaderUsed ==
    \/ pc \in {"pem_rsa", "pem_ec", "pem_p8"}
    \/ \E n \in 1..Len(hist) : hist[n] \in {"pem_hit", "pem_ret", "pem_miss"}

\* A key that is valid but for the version of its outermost structure.
BadVersion(i) ==
    IF i.p8
    THEN i.ver8 # 0 /\ ValidKey([i EXCEPT !.ver8 = 0])
    ELSE \/ i.gram = "pkcs1" /\ i.ver # 0 /\ ValidKey([i EXCEPT !.ver = 0])
         \/ i.gram = "sec1" /\ i.ver # 1 /\ ValidKey([i EXCEPT !.ver = 1])

\* A PKCS#1 key, bare or wrapped, that ttls_rsa_complete rejects.
Inconsistent(i) ==
    /\ i.op = "parse_key"
    /\ i.gram = "pkcs1" /\ i.ver = 0 /\ i.rsa \in RsaBad
    /\ i.p8 => ValidWrapper(i)

\* A PKCS#8 EC key whose inner parameters name another curve than its
\* AlgorithmIdentifier.
CurveMismatch(i) ==
    /\ i.op = "parse_key"
    /\ i.p8 /\ i.gram = "sec1" /\ ValidWrapper(i) /\ i.ver = 1
    /\ OuterCurve(i.aparams) # 0
    /\ ParamCurve(i.params) # 0
    /\ ParamCurve(i.params) # OuterCurve(i.aparams)

\* The last call made, "none" before the first.
LastCall == IF hist = << >> THEN "none" ELSE hist[Len(hist)]

IsSetup(e) == e = "setup"

\* The ttls_pk_setup calls made so far.
Setups == SelectSeq(hist, IsSetup)

\* A bare SEC1 key on which the SEC1 decoder gets as far as the publicKey
\* field: version 1, absent or registered parameters, nothing behind the
\* last field.
ReachesPublicKey(i) ==
    /\ i.op = "parse_key" /\ i.cut = 0
    /\ i.gram = "sec1" /\ ~i.p8 /\ i.ver = 1 /\ i.extra = << >>
    /\ i.params = << >> \/ ParamCurve(i.params) # 0
    /\ (i.armor = "raw" /\ i.trail = << >>) \/ (i.armor = "EC" /\ i.nul)

\* The values a CRT triplet can take.
CrtTriples == {<<a, b, c>> : a \in 0..MaxCrt, b \in 0..MaxCrt, c \in 0..MaxCrt}

\* The PKCS#1 decoder has just returned from a bare RSAPrivateKey, raw or
\* in a NUL-terminated RSA envelope: r is its status and pk.rsa the context
\* it leaves.
Pkcs1Returned ==
    /\ ParseKey /\ inp.cut = 0
    /\ inp.gram = "pkcs1" /\ ~inp.p8
    /\ inp.armor = "raw" \/ (inp.armor = "RSA" /\ inp.nul)
    /\ LastCall = "pkcs1" /\ pc \in {"done", "rsa_free"}

\* What the PKCS#1 decoder returns for the input with the CRT triplet crt
\* in the place of its own.
Pkcs1With(crt) ==
    pk_parse_key_pkcs1_der(EmptyRsa, Der([inp EXCEPT !.crt = crt]) \o inp.trail,
                           0, DerLen)

IsMiss(e) == e = "pem_miss"

\* The number of envelopes probed without a match.
Misses == Len(SelectSeq(hist, IsMiss))

\* The position is one of the three PEM probes.
AtProbe == pc \in {"pem_rsa", "pem_ec", "pem_p8"}

IsDecoder(e) == e \in {"pkcs8", "pkcs1", "sec1"}

\* The decoders called so far, in order.
Decoders == SelectSeq(hist, IsDecoder)

Populated ==
    \/ pk.tag = "RSA" /\ pk.rsa # EmptyRsa
    \/ pk.tag \in {"ECKEY", "ECKEY_DH"} /\ pk.ec # EmptyEc

(***************************************************************************)
(* Properties.                                                             *)
(***************************************************************************)

\* C1: whenever ttls_pk_parse_key returns a non-zero status the PK context
\* is empty: no algorithm tag is bound and no RSA or EC sub-object is left.
C1_FailureLeavesPkEmpty ==
    (ParseKey /\ Returned /\ r # 0) => pk = PkEmpty

\* C1 witness: a SEC1 decoder that had read a public key failed, and the
\* context the caller sees is empty.
C1_Witness ==
    /\ ParseKey /\ Returned /\ r # 0 /\ pk = PkEmpty
    /\ inp.gram = "sec1" /\ inp.pub # << >>
    /\ Decoders # << >> /\ Decoders[Len(Decoders)] = "sec1"

\* C2: whenever ttls_pk_parse_key returns 0 the PK context is populated:
\* it is set up as RSA, ECKEY or ECKEY_DH and a decoder completed on it,
\* whatever the PEM probes returned.
C2_SuccessPopulatesPk ==
    (ParseKey /\ Returned /\ r = 0) => (Populated /\ Decoders # << >>)

\* C2 witness: a PEM probe returned 0 and ttls_pk_parse_key returned 0 on
\* a context that was never set up.
C2_EmptySuccess ==
    /\ ParseKey /\ Returned /\ r = 0
    /\ pk = PkEmpty
    /\ hist = <<"pem_ret">>

\* C3: after a successful parse of an EC private key the key pair has
\* 1 <= d < N and Q = d * G, a point of the curve other than infinity.
C3_EcKeyPairConsistent ==
    (ParseKey /\ Returned /\ r = 0 /\ pk.tag \in {"ECKEY", "ECKEY_DH"})
    => /\ pk.ec.d >= 1 /\ pk.ec.d < GrpN(pk.ec.grp)
       /\ pk.ec.Q = [X |-> pk.ec.d, Y |-> GrpN(pk.ec.grp) - pk.ec.d, Z |-> 1]
       /\ OnCurve(pk.ec.grp, pk.ec.Q)

\* C3 witness: a key whose encoded publicKey is a point of the curve other
\* than d * G was parsed successfully with that point as Q.
C3_ForeignPublicKey ==
    /\ ParseKey /\ Returned /\ r = 0 /\ pk.tag = "ECKEY"
    /\ OnCurve(pk.ec.grp, pk.ec.Q)
    /\ pk.ec.Q.X # pk.ec.d

\* C4 as stated: a key that is well formed but for its version yields the
\* kind INVALID_VERSION, PEM-armored or raw DER.
C4_VersionKindEverywhere ==
    (Returned /\ BadVersion(inp) /\ (Raw \/ Armored))
    => Kind(r) = TTLS_ERR_PK_KEY_INVALID_VERSION

\* C4 amended: a key that is well formed but for its version yields
\* INVALID_VERSION when it is PEM-armored and KEY_INVALID_FORMAT, the last
\* status of the ladder, when it is raw DER; the PK context is empty.
C4_VersionKindPemOnly ==
    (Returned /\ BadVersion(inp))
    => /\ Armored => r = TTLS_ERR_PK_KEY_INVALID_VERSION
       /\ Raw => r = TTLS_ERR_PK_KEY_INVALID_FORMAT
       /\ (Raw \/ Armored) => pk = PkEmpty

\* C4 witness: the raw-DER ladder ran its three decoders on a PKCS#1 key
\* of version 2 and returned KEY_INVALID_FORMAT.
C4_Witness ==
    /\ Returned /\ BadVersion(inp) /\ Raw
    /\ inp.gram = "pkcs1" /\ ~inp.p8 /\ inp.ver = 2
    /\ Decoders = <<"pkcs8", "pkcs1", "sec1">>
    /\ r = TTLS_ERR_PK_KEY_INVALID_FORMAT

\* C5: a valid DER key followed by a non-empty byte string fails with the
\* cause LENGTH_MISMATCH.
C5_TrailingBytesRejected ==
    (Returned /\ ValidKey(inp) /\ Raw /\ inp.trail # << >>)
    => (r # 0 /\ Cause(r) = TTLS_ERR_ASN1_LENGTH_MISMATCH)

\* C5 witness: a valid key followed by the byte 7 was parsed successfully.
C5_TrailingBytesIgnored ==
    /\ Returned /\ ValidKey(inp) /\ Raw /\ inp.trail = <<7>>
    /\ r = 0 /\ Populated

\* C6 as stated: a PKCS#1 key that ttls_rsa_complete rejects yields the
\* kind INVALID_PUBKEY and an empty PK context.
C6_InconsistentRsaInvalidPubkey ==
    (Returned /\ Inconsistent(inp) /\ (Raw \/ Armored))
    => (Kind(r) = TTLS_ERR_PK_INVALID_PUBKEY /\ pk = PkEmpty)

\* C6 amended: a PKCS#1 key that ttls_rsa_complete rejects yields
\* KEY_INVALID_FORMAT, with no cause added, and an empty PK context.
C6_InconsistentRsaInvalidFormat ==
    (Returned /\ Inconsistent(inp) /\ (Raw \/ Armored))
    => (r = TTLS_ERR_PK_KEY_INVALID_FORMAT /\ pk = PkEmpty)

\* C6 witness: the PEM path returned KEY_INVALID_FORMAT for a key with
\* P = Q.
C6_Witness ==
    /\ Returned /\ Inconsistent(inp) /\ Armored /\ ~inp.p8
    /\ inp.rsa.P = inp.rsa.Q
    /\ Decoders = <<"pkcs1">>
    /\ r = TTLS_ERR_PK_KEY_INVALID_FORMAT /\ pk = PkEmpty

\* C7: a PKCS#8 EC key whose AlgorithmIdentifier names curve X and whose
\* SEC1 parameters name a curve Y # X fails with the kind INVALID_FORMAT
\* and an empty context, and no step replaces a group id that is set by
\* another one.
C7_CurveIdConsistency ==
    [][/\ pk.ec.grp # TTLS_ECP_DP_NONE
          => pk'.ec.grp \in {pk.ec.grp, TTLS_ECP_DP_NONE}
       /\ (pc' = "done" /\ CurveMismatch(inp) /\ (Raw \/ Armored))
          => (Kind(r') = TTLS_ERR_PK_KEY_INVALID_FORMAT /\ pk' = PkEmpty)]_vars

\* C7 witness: the PKCS#8 decoder seeded the group from the outer curve,
\* the SEC1 decoder met the other curve, and the call failed.
C7_Witness ==
    /\ Returned /\ CurveMismatch(inp) /\ Armored
    /\ inp.d = 1
    /\ Decoders = <<"pkcs8", "sec1">>
    /\ r = TTLS_ERR_PK_KEY_INVALID_FORMAT /\ pk = PkEmpty

\* C8: an RSA SubjectPublicKeyInfo whose parameters are neither absent nor
\* the NULL TLV fails with INVALID_ALG and leaves the PK context empty.
C8_RsaParamsNullOrAbsent ==
    (Returned /\ inp.op = "parse_subpubkey" /\ inp.oid = OID_RSA
     /\ inp.aparams \notin {<< >>, NullParam})
    => (Kind(r) = TTLS_ERR_PK_INVALID_ALG /\ pk = PkEmpty)

\* C8 witness: the parameters TLV of tag 0 and length 0 was accepted and
\* the key was parsed.
C8_TagZeroAccepted ==
    /\ Returned /\ inp.op = "parse_subpubkey" /\ inp.oid = OID_RSA
    /\ inp.aparams = <<0, 0>>
    /\ r = 0 /\ pk.tag = "RSA" /\ pk.rsa.N = 15

\* C9: a valid key parses successfully as raw DER and PEM-armored, both
\* to the key it encodes, and in the raw-DER ladder the decoders before
\* the key's own reject it.
C9_SameKeyRawAndPem ==
    (Returned /\ ValidKey(inp) /\ ((Raw /\ inp.trail = << >>) \/ Armored))
    => /\ r = 0
       /\ inp.gram = "pkcs1"
          => /\ pk.tag = "RSA"
             /\ RsaKey(pk.rsa.N, pk.rsa.E, pk.rsa.D, pk.rsa.P, pk.rsa.Q) = inp.rsa
       /\ inp.gram = "sec1"
          => /\ pk.tag \in {"ECKEY", "ECKEY_DH"}
             /\ pk.ec.grp = KeyCurve(inp)
             /\ pk.ec.d = inp.d
             /\ pk.ec.Q = PointOf(inp)
       /\ Decoders = IF inp.p8 THEN <<"pkcs8", inp.gram>>
                     ELSE IF Armored THEN <<inp.gram>>
                     ELSE IF inp.gram = "pkcs1" THEN <<"pkcs8", "pkcs1">>
                     ELSE <<"pkcs8", "pkcs1", "sec1">>

\* C9 witness: a valid PEM-armored SEC1 key with parameters and without
\* publicKey was rejected.
C9_ValidSec1Rejected ==
    /\ Returned /\ ValidKey(inp) /\ Armored /\ ~inp.p8
    /\ inp.gram = "sec1" /\ inp.params # << >> /\ inp.pub = << >>
    /\ r = TTLS_ERR_PK_KEY_INVALID_FORMAT + TTLS_ERR_ASN1_OUT_OF_DATA
    /\ pk = PkEmpty

C11_TruncationBoundsSafe ==
    /\ (ParseKey /\ PemReaderUsed) => (keylen > 0 /\ key0[keylen] = 0)
    /\ Truncated(inp)
       => /\ cur.p <= cur.lim /\ cur.lim <= keylen
          /\ loc.p <= keylen
          /\ Returned => (r # 0 /\ pk = PkEmpty)

\* C11 witness: the raw-DER ladder ran its three decoders on a key cut by
\* one byte; the last one stopped behind the length of the outer SEQUENCE
\* and the call failed.
C11_Witness ==
    /\ Truncated(inp) /\ Raw /\ inp.cut = 1 /\ Returned
    /\ Decoders = <<"pkcs8", "pkcs1", "sec1">>
    /\ cur.p = 2 /\ cur.lim = keylen
    /\ r = TTLS_ERR_PK_KEY_INVALID_FORMAT /\ pk = PkEmpty

\* C12: within one ttls_pk_parse_key call ttls_pk_setup is only called on
\* an empty PK context and leaves it set up and unpopulated; a context that
\* is set up changes only by a decoder working on it or by ttls_pk_free; a
\* decoder's success is followed by the return of 0 with no other step; and
\* the function returns with the context empty or, with status 0,
\* populated.
C12_PkLifecycle ==
    [][ParseKey
       => /\ (hist' # hist /\ LastCall' = "setup")
             => /\ pk = PkEmpty
                /\ r' = 0 => /\ pk'.tag \in {"RSA", "ECKEY", "ECKEY_DH"}
                             /\ pk'.rsa = EmptyRsa /\ pk'.ec = EmptyEc
          /\ (pk.tag = "NONE" /\ pk' # pk)
             => (hist' # hist /\ LastCall' = "setup")
          /\ (pk.tag # "NONE" /\ pk' # pk)
             => \/ pk' = PkEmpty /\ LastCall' = "free"
                \/ /\ pk'.tag = pk.tag
                   /\ LastCall' \in {"ecparams", "pkcs1", "sec1"}
          /\ (hist' # hist /\ LastCall' \in {"pkcs1", "sec1"} /\ r' = 0)
             => pc' \in {"done", "p8_ret"}
          /\ (pc = "p8_ret" /\ r = 0)
             => (pc' = "done" /\ r' = 0 /\ pk' = pk)
          /\ pc' = "done"
             => (pk' = PkEmpty \/ (r' = 0 /\ Populated'))]_vars

\* C12 witness: the raw-DER ladder set the context up three times, freed
\* it after each failed attempt and returned with the context empty.
C12_Witness ==
    /\ ParseKey /\ Returned /\ mode = "der"
    /\ Setups = <<"setup", "setup", "setup">>
    /\ LastCall = "free"
    /\ r = TTLS_ERR_PK_KEY_INVALID_FORMAT /\ pk = PkEmpty

\* C13: at the no_pem label the decoders are tried in the order PKCS#8,
\* PKCS#1, SEC1, each only after the one before it failed; the first
\* success returns 0 with that decoder's algorithm tag; when all three
\* fail the status is KEY_INVALID_FORMAT whatever the decoders reported.
C13_RawDerLadder ==
    [][(ParseKey /\ mode' = "der")
       => /\ pc' = "p8_head" => (pc \in {"start", "pem_p8"} /\ Decoders = << >>)
          /\ pc' = "rsa_setup"
             => (pc = "p8_ret" /\ r # 0 /\ Decoders[1] = "pkcs8")
          /\ pc' = "ec_setup"
             => (pc = "rsa_free" /\ r # 0 /\ Decoders[Len(Decoders)] = "pkcs1")
          /\ (pc' = "done" /\ r' = 0)
             => \/ /\ pc = "p8_ret" /\ pk'.tag = loc.pk_alg
                   /\ Len(Decoders') = 2 /\ Decoders'[1] = "pkcs8"
                \/ pc = "rsa_parse" /\ pk'.tag = "RSA" /\ LastCall' = "pkcs1"
                \/ pc = "ec_parse" /\ pk'.tag = "ECKEY" /\ LastCall' = "sec1"
          /\ (pc' = "done" /\ r' # 0)
             => /\ pc = "ec_free"
                /\ r' = TTLS_ERR_PK_KEY_INVALID_FORMAT
                /\ Len(Decoders') >= 3
                /\ Decoders'[1] = "pkcs8"
                /\ Decoders'[Len(Decoders') - 1] = "pkcs1"
                /\ Decoders'[Len(Decoders')] = "sec1"]_vars

\* C13 witness: a raw SEC1 key was refused by the PKCS#8 and the PKCS#1
\* decoder and parsed by the SEC1 decoder, the last one of the ladder.
C13_Witness ==
    /\ ParseKey /\ Returned /\ mode = "der"
    /\ Decoders = <<"pkcs8", "pkcs1", "sec1">>
    /\ r = 0 /\ pk.tag = "ECKEY" /\ Populated

\* C14: on NUL-terminated input the envelopes are probed in the order RSA
\* PRIVATE KEY, EC PRIVATE KEY, PRIVATE KEY; only NO_HEADER_FOOTER_PRESENT
\* leads to the next probe or, after the third, to the raw-DER ladder;
\* every other error is returned at once with no decoder run; a match runs
\* the matched envelope's decoder on the decoded length and returns its
\* status, with no other probe and no raw-DER attempt.
C14_PemLadder ==
    [][ParseKey
       => /\ pc' = "pem_rsa" => (pc = "start" /\ key0[keylen] = 0)
          /\ pc' = "pem_ec" => (pc = "pem_rsa" /\ Misses' = 1)
          /\ pc' = "pem_p8" => (pc = "pem_ec" /\ Misses' = 2)
          /\ (AtProbe /\ r' = TTLS_ERR_PEM_NO_HEADER_FOOTER_PRESENT)
             => /\ pc' = (IF pc = "pem_rsa" THEN "pem_ec"
                          ELSE IF pc = "pem_ec" THEN "pem_p8" ELSE "p8_head")
                /\ mode' = (IF pc = "pem_p8" THEN "der" ELSE "pem")
                /\ dec_key_len' = 0
          /\ (AtProbe /\ r' < 0 /\ r' # TTLS_ERR_PEM_NO_HEADER_FOOTER_PRESENT)
             => (pc' = "done" /\ pk' = PkEmpty /\ Decoders' = << >>)
          /\ (AtProbe /\ r' > 0)
             => /\ dec_key_len' = r' /\ mode' = "pem"
                /\ pc' = (IF pc = "pem_rsa" THEN "rsa_setup"
                          ELSE IF pc = "pem_ec" THEN "ec_setup" ELSE "p8_head")
          /\ (dec_key_len > 0 /\ mode = "pem")
             => /\ ~AtProbe' /\ mode' = "pem" /\ dec_key_len' = dec_key_len
                /\ Decoders' # Decoders
                   => /\ cur'.lim <= dec_key_len
                      /\ Decoders' \in
                            (IF Misses = 0 THEN {<<"pkcs1">>}
                             ELSE IF Misses = 1 THEN {<<"sec1">>}
                             ELSE {<<"pkcs8">>, <<"pkcs8", "pkcs1">>,
                                   <<"pkcs8", "sec1">>})
                      /\ Len(Decoders') = 1 => cur'.lim = dec_key_len
                /\ (pc' = "done" /\ LastCall' = "free") => r' = r]_vars

\* C14 witness: the second envelope matched, its decoder refused the key
\* and that status was returned: no third probe, no raw-DER attempt.
C14_Witness ==
    /\ ParseKey /\ Returned /\ mode = "pem" /\ dec_key_len > 0
    /\ hist = <<"pem_miss", "pem_hit", "setup", "sec1", "free">>
    /\ r = TTLS_ERR_PK_KEY_INVALID_VERSION /\ pk = PkEmpty

\* C15: the SEC1 decoder computes Q = d * G exactly when the publicKey
\* field is absent or pk_get_ecpubkey returned FEATURE_UNAVAILABLE; when
\* pk_get_ecpubkey succeeds Q is the point it read; any other failure of it
\* yields KEY_INVALID_FORMAT; and behind pk_get_ecpubkey the cursor is at
\* the end of the BIT STRING.
C15_PublicPointSource ==
    (Returned /\ ReachesPublicKey(inp))
    => /\ cur.mul <=> \/ inp.pub = << >>
                      \/ cur.rd_called /\ cur.rd = TTLS_ERR_ECP_FEATURE_UNAVAILABLE
       /\ inp.pub # << >> => (cur.rd_called /\ cur.p = cur.end2)
       /\ (cur.rd_called /\ cur.rd = 0)
          => (~cur.mul /\ (r = 0 => pk.ec.Q = [X |-> inp.pub[7], Y |-> inp.pub[8],
                                                Z |-> 1]))
       /\ (cur.rd_called /\ cur.rd \notin {0, TTLS_ERR_ECP_FEATURE_UNAVAILABLE})
          => (r = TTLS_ERR_PK_KEY_INVALID_FORMAT /\ pk = PkEmpty)

\* C15 witness: a raw SEC1 key with parameters and without publicKey was
\* refused before ttls_ecp_mul, with pk_get_ecpubkey never called.
C15_NoPublicKeyNoMul ==
    /\ Returned /\ ReachesPublicKey(inp) /\ Raw
    /\ inp.params = Sec1Params(OID_CURVE_A) /\ inp.pub = << >> /\ inp.d = 1
    /\ ~cur.mul /\ ~cur.rd_called
    /\ r = TTLS_ERR_PK_KEY_INVALID_FORMAT /\ pk = PkEmpty

\* C16: the status and the RSA context pk_parse_key_pkcs1_der leaves are
\* the same for every value of the three CRT INTEGERs of its input; on
\* success DP, DQ and QP are the ones ttls_rsa_complete derived from N, E,
\* D, P, Q; and when one of the three INTEGERs is missing the decoder fails
\* and the RSA context is freed.
C16_CrtNonInterference ==
    Pkcs1Returned
    => /\ Len(inp.crt) = 3
          => /\ \A t \in CrtTriples :
                   /\ Pkcs1With(t).ret = r
                   /\ Pkcs1With(t).rsa = pk.rsa
             /\ r = 0
                => /\ pk.rsa = ttls_rsa_complete(
                                   [EmptyRsa EXCEPT !.N = inp.rsa.N, !.E = inp.rsa.E,
                                                    !.D = inp.rsa.D, !.P = inp.rsa.P,
                                                    !.Q = inp.rsa.Q]).rsa
                   /\ <<pk.rsa.DP, pk.rsa.DQ, pk.rsa.QP>> = CrtOf(inp.rsa)
       /\ Len(inp.crt) < 3 => (r # 0 /\ pk.rsa = EmptyRsa)

\* C16 witness: a key whose encoded CRT triplet is not that of its primes
\* was parsed, and the context holds the derived triplet.
C16_Witness ==
    /\ Pkcs1Returned /\ r = 0
    /\ inp.crt = <<1, 1, 1>> /\ inp.crt # CrtOf(inp.rsa)
    /\ <<pk.rsa.DP, pk.rsa.DQ, pk.rsa.QP>> = CrtOf(inp.rsa)

=============================================================================
